---- MODULE Spec2Model ----
(***************************************************************************)
(* The moderated chat server of le-tueur/chatvc: the GitHubStorage store   *)
(* (src/unnamed/part_002) and the WebSocket protocol handlers of           *)
(* src/server/routes.ts (the GitHub-backed version, lines 556-1240).       *)
(*                                                                         *)
(* The store is one record; every storage method is an operator from a     *)
(* store (and the time of the call) to a store or to a result.  Every      *)
(* handler is an operator giving what it leaves (store, sockets, timers,   *)
(* frames written); Receive applies it as one action, as the handler runs  *)
(* to completion on the single event loop.                                 *)
(***************************************************************************)
EXTENDS Integers, Sequences, FiniteSets, TLC

VARIABLES
    storage,        \* the GitHubStorage singleton (routes.ts:568)
    clients,        \* wss.clients: per socket readyState, userId, username, role, isAlive
    now,            \* Date.now()
    nextUserId,     \* randomUUID() draws for session ids: the next fresh one
    nextMessageId,  \* randomUUID() draws for message ids: the next fresh one
    flashTimers,    \* pending setTimeout callbacks of handleSendFlash
    sent,           \* the frames the last step wrote to sockets, in send order
    last,           \* the inbound event (or timer, or socket event) the last step handled
    github,         \* the storage file of the repository and the PUT requests made for it
    feed            \* history: the message ids published, and those written to each socket

vars ==
    <<storage, clients, now, nextUserId, nextMessageId, flashTimers, sent, last, github, feed>>

----------------------------------------------------------------------------
(* Bounds of the model. *)

\* sockets that can be open at the same time
MaxConns == 2
\* messages created over a run of SpecDirect, SpecDisabled, SpecBlocked,
\* SpecMute and SpecAdmin
MaxSent == 1
\* messages created over a run of SpecQueue
MaxMessages == 2
\* messages in the storage file read at the start of SpecStore
MaxLoaded == 2
\* clock steps taken over a run, in the specifications where time passes
MaxClock == 3
\* the longest timer an admin sets, in minutes
MaxMinutes == 2
\* the longest flash an admin sends, in seconds
MaxFlashSeconds == 2
\* Date.now() when the server starts
Epoch == 7

(* Program constants. *)

MaxContentLength == 1000
MinuteMs == 60000
SecondMs == 1000
SaveDebounceMs == 2000
TypingStaleMs == 5000

\* JavaScript's undefined, for the optional numeric fields
\* (timerEndTime?, mutedUntil?, flashDuration?) and the unset ws.userId.
Undefined == -1

\* ws.username / ws.role before auth
NoString == "undefined"

Conns == 1..MaxConns

\* const CREDENTIALS
CREDENTIALS == {"ad", "shainez", "pronBOT"}

\* CREDENTIALS is an object literal: a lookup by a key it does not own falls
\* through to Object.prototype, whose properties (functions, and the
\* prototype object itself) are truthy.  Two of them stand for all.
ObjectPrototype == {"constructor", "toString"}

\* CREDENTIALS[username] is truthy
HasCredentials(username) == username \in CREDENTIALS \cup ObjectPrototype

\* the role every handler compares ws.role with
AdminRole == "pronBOT"

----------------------------------------------------------------------------
(* Strings.  A string is a record [text, pad]: the characters of text      *)
(* followed by pad copies of the filler character "x".  This keeps the     *)
(* 1000- and 1001-character contents of the length check small in a state. *)

FillChar == "x"

Str(text) == [text |-> text, pad |-> 0]

Padded(text, n) == [text |-> text, pad |-> n]

\* the characters of s, filler included
Expand(s) == s.text \o [i \in 1..s.pad |-> FillChar]

\* String.prototype.length
Length(s) == Len(s.text) + s.pad

UpperToLower == [c \in {"A", "B"} |-> IF c = "A" THEN "a" ELSE "b"]

toLowerChar(c) == IF c \in DOMAIN UpperToLower THEN UpperToLower[c] ELSE c

\* String.prototype.toLowerCase
toLowerCase(s) == [text |-> [i \in 1..Len(s.text) |-> toLowerChar(s.text[i])], pad |-> s.pad]

RECURSIVE trimStart(_)
trimStart(q) == IF q # <<>> /\ Head(q) = " " THEN trimStart(Tail(q)) ELSE q

RECURSIVE trimEnd(_)
trimEnd(q) ==
    IF q # <<>> /\ q[Len(q)] = " " THEN trimEnd(SubSeq(q, 1, Len(q) - 1)) ELSE q

\* String.prototype.trim
trim(s) ==
    IF s.pad > 0
    THEN [text |-> trimStart(s.text), pad |-> s.pad]
    ELSE [text |-> trimEnd(trimStart(s.text)), pad |-> 0]

\* String.prototype.includes
includes(s, w) ==
    LET hay == Expand(s)
        needle == Expand(w)
    IN  \E i \in 0..(Len(hay) - Len(needle)) :
            SubSeq(hay, i + 1, i + Len(needle)) = needle

----------------------------------------------------------------------------
(* Objects. *)

\* { ...a, ...b }
Spread(a, b) ==
    [k \in (DOMAIN a) \cup (DOMAIN b) |-> IF k \in DOMAIN b THEN b[k] ELSE a[k]]

\* a Map keyed by field key, kept as the sequence of its values in insertion
\* order: Map.prototype.set
MapSet(m, key, k, v) ==
    IF \E i \in 1..Len(m) : m[i][key] = k
    THEN [i \in 1..Len(m) |-> IF m[i][key] = k THEN v ELSE m[i]]
    ELSE Append(m, v)

\* Map.prototype.delete
MapDelete(m, key, k) == SelectSeq(m, LAMBDA e : e[key] # k)

\* Array.prototype.find over the elements that match, as a sequence of no or
\* one element
First(hits) == IF hits = <<>> THEN <<>> ELSE <<Head(hits)>>

\* JavaScript truthiness of an optional number
Truthy(n) == n # Undefined /\ n # 0

----------------------------------------------------------------------------
(* GitHubStorage *)

\* constructor
NewStorage ==
    [ users |-> <<>>,
      messages |-> <<>>,
      config |-> [ enabled |-> TRUE, cooldown |-> 0, simulationMode |-> FALSE,
                   directChatEnabled |-> FALSE, timerEndTime |-> Undefined ],
      mutedUsers |-> <<>>,
      blockedWords |-> <<>>,
      typingUsers |-> <<>>,
      saveTimeout |-> Undefined ]

\* the forEach loops of loadFromGitHub: entries set into a Map under their key
RECURSIVE loadEntries(_, _, _)
loadEntries(map, entries, key) ==
    IF entries = <<>> THEN map
    ELSE loadEntries(MapSet(map, key, Head(entries)[key], Head(entries)),
                     Tail(entries), key)

\* initialize, loadFromGitHub: the store after reading a storage file that
\* holds messages, muted users and blocked words and no config
loadFromGitHub(storageData) ==
    [ NewStorage EXCEPT !.messages = storageData.messages,
                        !.mutedUsers = loadEntries(<<>>, storageData.mutedUsers, "username"),
                        !.blockedWords = loadEntries(<<>>, storageData.blockedWords, "word") ]

\* a faulty variant of scheduleSave that keeps a timer that is already pending
scheduleSave_KeepsPending(st, t) ==
    IF st.saveTimeout # Undefined THEN st
    ELSE [st EXCEPT !.saveTimeout = t + SaveDebounceMs]

\* scheduleSave: cancel the pending timer and arm a new one.  saveTimeout is
\* the time at which the pending timer is due, and Undefined when none is
\* pending.
scheduleSave(st, t) == [st EXCEPT !.saveTimeout = t + SaveDebounceMs]

getUserByUsername(st, username) ==
    First(SelectSeq(st.users, LAMBDA u : u.username = username))

addUser(st, user) == [st EXCEPT !.users = MapSet(@, "id", user.id, user)]

removeUser(st, userId) == [st EXCEPT !.users = MapDelete(@, "id", userId)]

updateUser(st, userId, updates) ==
    [st EXCEPT !.users =
        [i \in 1..Len(@) |-> IF @[i].id = userId THEN Spread(@[i], updates) ELSE @[i]]]

\* a faulty variant of addMessage that puts the newest message first
addMessage_Prepend(st, message, t) ==
    scheduleSave([st EXCEPT !.messages = <<message>> \o @], t)

\* a faulty variant of getApprovedMessages that forgets the flash messages
getApprovedMessages_NoFlash(st) ==
    SelectSeq(st.messages,
              LAMBDA m : m.status = "approved" \/ m.type = "event" \/ m.forcePublished)

addMessage(st, message, t) ==
    scheduleSave([st EXCEPT !.messages = Append(@, message)], t)

getMessages(st) == st.messages

\* a faulty variant of getPendingMessages that lists every normal message
\* that was not rejected
getPendingMessages_NotRejected(st) ==
    SelectSeq(st.messages, LAMBDA m : m.status # "rejected" /\ m.type = "normal")

getPendingMessages(st) ==
    SelectSeq(st.messages, LAMBDA m : m.status = "pending" /\ m.type = "normal")

getApprovedMessages(st) ==
    SelectSeq(st.messages,
              LAMBDA m : m.status = "approved" \/ m.type = "event"
                         \/ m.type = "flash" \/ m.forcePublished)

\* a faulty variant of updateMessage that takes the message out and puts the
\* updated one at the end
updateMessage_MoveLast(st, messageId, updates, t) ==
    LET hit == SelectSeq(st.messages, LAMBDA m : m.id = messageId) IN
    IF hit = <<>>
    THEN st
    ELSE scheduleSave(
            [st EXCEPT !.messages =
                Append(SelectSeq(@, LAMBDA m : m.id # messageId),
                       Spread(hit[1], updates))], t)

\* findIndex + spread: the first message with that id
updateMessage(st, messageId, updates, t) ==
    LET hit == {i \in 1..Len(st.messages) : st.messages[i].id = messageId} IN
    IF hit = {}
    THEN st
    ELSE LET index == CHOOSE i \in hit : \A j \in hit : i <= j IN
         scheduleSave(
            [st EXCEPT !.messages[index] = Spread(@, updates)], t)

deleteMessage(st, messageId, t) ==
    scheduleSave(
        [st EXCEPT !.messages = SelectSeq(@, LAMBDA m : m.id # messageId)], t)

clearMessages(st, t) == scheduleSave([st EXCEPT !.messages = <<>>], t)

getConfig(st) == st.config

\* a faulty variant of updateConfig that replaces the config: the fields the
\* patch leaves out fall back to their defaults
updateConfig_Replace(st, updates, t) ==
    scheduleSave([st EXCEPT !.config = Spread(NewStorage.config, updates)], t)

updateConfig(st, updates, t) ==
    scheduleSave([st EXCEPT !.config = Spread(@, updates)], t)

addMutedUser(st, mutedUser, t) ==
    LET st1 == [st EXCEPT !.mutedUsers =
                    MapSet(@, "username", mutedUser.username, mutedUser)]
        user == getUserByUsername(st1, mutedUser.username)
        st2 == IF user # <<>>
               THEN updateUser(st1, user[1].id,
                        [isMuted |-> TRUE, mutedUntil |-> mutedUser.mutedUntil])
               ELSE st1
    IN  scheduleSave(st2, t)

removeMutedUser(st, username, t) ==
    LET st1 == [st EXCEPT !.mutedUsers = MapDelete(@, "username", username)]
        user == getUserByUsername(st1, username)
        st2 == IF user # <<>>
               THEN updateUser(st1, user[1].id,
                        [isMuted |-> FALSE, mutedUntil |-> Undefined])
               ELSE st1
    IN  scheduleSave(st2, t)

\* getMutedUsers: the value returned
getMutedUsers(st, t) == SelectSeq(st.mutedUsers, LAMBDA mu : mu.mutedUntil > t)

RECURSIVE removeExpired(_, _, _)
removeExpired(st, expiredMutes, t) ==
    IF expiredMutes = <<>>
    THEN st
    ELSE removeExpired(removeMutedUser(st, Head(expiredMutes).username, t),
                       Tail(expiredMutes), t)

\* getMutedUsers: the store it leaves
getMutedUsersStore(st, t) ==
    removeExpired(st, SelectSeq(st.mutedUsers, LAMBDA mu : mu.mutedUntil <= t), t)

\* a faulty variant of isUserMuted for which a mute still holds at the
\* instant it expires
isUserMuted_Strict(st, username, t) ==
    LET muted == First(SelectSeq(st.mutedUsers, LAMBDA mu : mu.username = username)) IN
    IF muted = <<>> THEN FALSE
    ELSE IF muted[1].mutedUntil < t THEN FALSE
    ELSE TRUE

\* isUserMuted: the value returned
isUserMuted(st, username, t) ==
    LET muted == First(SelectSeq(st.mutedUsers, LAMBDA mu : mu.username = username)) IN
    IF muted = <<>> THEN FALSE
    ELSE IF muted[1].mutedUntil <= t THEN FALSE
    ELSE TRUE

\* isUserMuted: the store it leaves
isUserMutedStore(st, username, t) ==
    LET muted == First(SelectSeq(st.mutedUsers, LAMBDA mu : mu.username = username)) IN
    IF muted # <<>> /\ muted[1].mutedUntil <= t
    THEN removeMutedUser(st, username, t)
    ELSE st

addBlockedWord(st, word, t) ==
    scheduleSave(
        [st EXCEPT !.blockedWords =
            MapSet(@, "word", toLowerCase(word),
                   [word |-> toLowerCase(word), addedAt |-> t])], t)

\* a faulty variant of removeBlockedWord that looks the word up as it is
\* written
removeBlockedWord_Exact(st, word, t) ==
    scheduleSave([st EXCEPT !.blockedWords = MapDelete(@, "word", word)], t)

removeBlockedWord(st, word, t) ==
    scheduleSave(
        [st EXCEPT !.blockedWords = MapDelete(@, "word", toLowerCase(word))], t)

getBlockedWords(st) == st.blockedWords

containsBlockedWord(st, text) ==
    LET lowerText == toLowerCase(text) IN
    \E i \in 1..Len(st.blockedWords) : includes(lowerText, st.blockedWords[i].word)

setUserTyping(st, username, t) ==
    [st EXCEPT !.typingUsers =
        MapSet(@, "username", username, [username |-> username, timestamp |-> t])]

removeUserTyping(st, username) ==
    [st EXCEPT !.typingUsers = MapDelete(@, "username", username)]

\* getTypingUsers: the value returned
getTypingUsers(st, t) ==
    LET live == SelectSeq(st.typingUsers, LAMBDA e : t - e.timestamp < TypingStaleMs)
    IN  [i \in 1..Len(live) |-> live[i].username]

\* getTypingUsers: the store it leaves
getTypingUsersStore(st, t) ==
    [st EXCEPT !.typingUsers =
        SelectSeq(@, LAMBDA e : t - e.timestamp < TypingStaleMs)]

\* getStorageDataForExport
getStorageDataForExport(st) ==
    [ users |-> st.users, messages |-> st.messages, mutedUsers |-> st.mutedUsers,
      blockedWords |-> st.blockedWords, config |-> st.config ]

----------------------------------------------------------------------------
(* Sockets and frames *)

\* a socket of wss.clients that is not connected
NoSocket ==
    [ readyState |-> "CLOSED", userId |-> Undefined, username |-> NoString,
      role |-> NoString, isAlive |-> FALSE ]

\* wss.on("connection"): a fresh socket
NewSocket ==
    [ readyState |-> "OPEN", userId |-> Undefined, username |-> NoString,
      role |-> NoString, isAlive |-> TRUE ]

\* the frame data as written to socket c
Frame(c, data) == Spread(data, [to |-> c])

\* ws.send(JSON.stringify(data))
send(c, data) == <<Frame(c, data)>>

OpenConns(cl) ==
    SelectSeq([i \in 1..MaxConns |-> i], LAMBDA c : cl[c].readyState = "OPEN")

\* a faulty variant of broadcast that stops after the first open client
broadcast_FirstOnly(cl, data) ==
    LET open == OpenConns(cl) IN [i \in 1..(IF open = <<>> THEN 0 ELSE 1) |-> Frame(open[i], data)]

\* broadcast(wss, data): one frame to every client whose readyState is OPEN
broadcast(cl, data) ==
    LET open == OpenConns(cl) IN [i \in 1..Len(open) |-> Frame(open[i], data)]

\* a faulty variant of broadcastUsers that skips the sockets without a session
broadcastUsers_SessionsOnly(cl, st) ==
    LET open == SelectSeq(OpenConns(cl), LAMBDA c : cl[c].userId # Undefined)
    IN  [i \in 1..Len(open) |->
            Frame(open[i], [type |-> "users_update", users |-> st.users])]

\* broadcastUsers(wss)
broadcastUsers(cl, st) == broadcast(cl, [type |-> "users_update", users |-> st.users])

\* broadcastTypingUsers(wss): the frames; the store it leaves is getTypingUsersStore
broadcastTypingUsers(cl, st, t) ==
    broadcast(cl, [type |-> "typing_update", users |-> getTypingUsers(st, t)])

\* a faulty variant of sendToAdmins that leaks the queue to every open client
sendToAdmins_Everyone(cl, data) ==
    LET open == OpenConns(cl) IN [i \in 1..Len(open) |-> Frame(open[i], data)]

\* the pending_message loop of handleSendMessage: every open admin-role client
sendToAdmins(cl, data) ==
    LET admins == SelectSeq(OpenConns(cl), LAMBDA c : cl[c].role = AdminRole)
    IN  [i \in 1..Len(admins) |-> Frame(admins[i], data)]

\* a faulty variant of autoApprove that queues the admin's own messages
autoApprove_DirectOnly(role, config) == config.directChatEnabled

\* a faulty variant of autoApprove that ignores direct mode
autoApprove_AdminOnly(role, config) == role = AdminRole

\* const autoApprove = ws.role === "pronBOT" || config.directChatEnabled
autoApprove(role, config) == role = AdminRole \/ config.directChatEnabled

\* the Message object literal of the handlers
NewMessage(id, userId, username, role, content, t, status, type, flashDuration) ==
    [ id |-> id, userId |-> userId, username |-> username, role |-> role,
      content |-> content, timestamp |-> t, status |-> status, type |-> type,
      forcePublished |-> FALSE, flashDuration |-> flashDuration ]

\* userId: "system" of the closure-timer message
SystemUserId == 0

----------------------------------------------------------------------------
(* The handlers of routes.ts.  A handler is an operator from the current    *)
(* state and one inbound event to what the handler leaves: the store, the   *)
(* sockets, the ids drawn, the timers set and the frames written.           *)

IsOpen(c) == clients[c].readyState = "OPEN"

\* what a handler leaves when it changed the store to st and wrote out
Result(st, out) ==
    [ storage |-> st, clients |-> clients, nextUserId |-> nextUserId,
      nextMessageId |-> nextMessageId, flashTimers |-> flashTimers, sent |-> out ]

\* a handler that returned before doing anything
Ignored == Result(storage, <<>>)

handleAuth(c, message) ==
    LET username == message.username
        role == message.role
    IN
    IF ~HasCredentials(username)
    THEN Result(storage, send(c, [type |-> "error",
                                  message |-> "Nom d'utilisateur invalide"]))
    ELSE LET userId == nextUserId
             cl1 == [clients EXCEPT ![c].userId = userId,
                                    ![c].username = username,
                                    ![c].role = role]
             st1 == isUserMutedStore(storage, username, now)
             st2 == getMutedUsersStore(st1, now)
             mu == First(SelectSeq(getMutedUsers(st1, now),
                                   LAMBDA e : e.username = username))
             old == getUserByUsername(st2, username)
             user == [ id |-> userId, username |-> username, role |-> role,
                       isOnline |-> TRUE,
                       isMuted |-> isUserMuted(storage, username, now),
                       mutedUntil |-> IF mu = <<>> THEN Undefined ELSE mu[1].mutedUntil,
                       isHidden |-> IF old = <<>> THEN FALSE ELSE old[1].isHidden ]
             st3 == addUser(st2, user)
             st4 == getMutedUsersStore(st3, now)
         IN  [ Result(st4,
                   send(c, [ type |-> "initial_state",
                             messages |-> getApprovedMessages(st3),
                             users |-> st3.users,
                             config |-> getConfig(st3),
                             mutedUsers |-> getMutedUsers(st3, now),
                             blockedWords |-> getBlockedWords(st4),
                             pendingMessages |-> IF role = AdminRole
                                                 THEN getPendingMessages(st4)
                                                 ELSE <<>> ])
                   \o broadcastUsers(cl1, st4))
               EXCEPT !.clients = cl1, !.nextUserId = nextUserId + 1 ]

\* the error texts of handleSendMessage
ChatDisabledError == "Le chat est desactive"

MutedError == "Vous etes en sourdine"

BlockedWordError == "Le message contient des mots bloques"

handleSendMessage(c, message) ==
    LET ws == clients[c]
        content == message.content
        st1 == isUserMutedStore(storage, ws.username, now)
    IN
    IF ws.username = NoString \/ ws.userId = Undefined THEN Ignored
    ELSE IF Length(content) = 0 \/ Length(trim(content)) = 0 THEN Ignored
    ELSE IF Length(content) > MaxContentLength THEN Ignored
    ELSE IF ~getConfig(storage).enabled /\ ws.role # AdminRole
    THEN Result(storage, send(c, [type |-> "error", message |-> ChatDisabledError]))
    ELSE IF isUserMuted(storage, ws.username, now)
    THEN Result(storage, send(c, [type |-> "error", message |-> MutedError]))
    ELSE IF containsBlockedWord(st1, content)
    THEN Result(st1, send(c, [type |-> "error", message |-> BlockedWordError]))
    ELSE LET config == getConfig(st1)
             auto == autoApprove(ws.role, config)
             newMessage == NewMessage(nextMessageId, ws.userId, ws.username, ws.role,
                               trim(content), now,
                               IF auto THEN "approved" ELSE "pending",
                               "normal", Undefined)
             st2 == addMessage(st1, newMessage, now)
             st3 == removeUserTyping(st2, ws.username)
         IN  [ Result(getTypingUsersStore(st3, now),
                   (IF auto
                    THEN broadcast(clients, [type |-> "message", message |-> newMessage])
                    ELSE send(c, [type |-> "pending_message", message |-> newMessage])
                         \o sendToAdmins(clients, [type |-> "pending_message",
                                                   message |-> newMessage]))
                   \o broadcastTypingUsers(clients, st3, now))
               EXCEPT !.nextMessageId = nextMessageId + 1 ]

handleTyping(c, message) ==
    IF clients[c].username = NoString THEN Ignored
    ELSE LET st1 == IF message.isTyping
                    THEN setUserTyping(storage, clients[c].username, now)
                    ELSE removeUserTyping(storage, clients[c].username)
         IN  Result(getTypingUsersStore(st1, now), broadcastTypingUsers(clients, st1, now))

\* the body shared by handleApproveMessage and handleForcePublish
PublishUpdated(messageId, updates) ==
    LET st1 == updateMessage(storage, messageId, updates, now)
        msg == First(SelectSeq(getMessages(st1), LAMBDA m : m.id = messageId))
    IN  Result(st1,
            IF msg # <<>>
            THEN broadcast(clients, [type |-> "message", message |-> msg[1]])
                 \o broadcast(clients, [type |-> "message_approved",
                                        messageId |-> messageId])
            ELSE <<>>)

\* a faulty variant of handleApproveMessage that announces the approval without
\* looking the message up
handleApproveMessage_Unchecked(c, message) ==
    IF clients[c].role # AdminRole THEN Ignored
    ELSE LET r == PublishUpdated(message.messageId, [status |-> "approved"]) IN
         [r EXCEPT !.sent =
             IF @ # <<>> THEN @
             ELSE broadcast(clients, [type |-> "message_approved",
                                      messageId |-> message.messageId])]

handleApproveMessage(c, message) ==
    IF clients[c].role # AdminRole THEN Ignored
    ELSE PublishUpdated(message.messageId, [status |-> "approved"])

handleRejectMessage(c, message) ==
    IF clients[c].role # AdminRole THEN Ignored
    ELSE Result(deleteMessage(storage, message.messageId, now),
                broadcast(clients, [type |-> "message_rejected",
                                    messageId |-> message.messageId]))

\* a faulty variant of handleForcePublish that sets the flag and leaves the
\* status
handleForcePublish_FlagOnly(c, message) ==
    IF clients[c].role # AdminRole THEN Ignored
    ELSE PublishUpdated(message.messageId, [forcePublished |-> TRUE])

handleForcePublish(c, message) ==
    IF clients[c].role # AdminRole THEN Ignored
    ELSE PublishUpdated(message.messageId,
                        [forcePublished |-> TRUE, status |-> "approved"])

\* the body shared by handleSendEvent and handleSendWarning: an approved event
\* message under the given username, broadcast as a message frame
PublishEvent(c, username, content) ==
    LET eventMessage == NewMessage(nextMessageId, clients[c].userId, username,
                            AdminRole, content, now, "approved", "event", Undefined)
    IN  [ Result(addMessage(storage, eventMessage, now),
                 broadcast(clients, [type |-> "message", message |-> eventMessage]))
          EXCEPT !.nextMessageId = nextMessageId + 1 ]

handleSendEvent(c, message) ==
    IF clients[c].role # AdminRole THEN Ignored
    ELSE IF Length(message.content) = 0 THEN Ignored
    ELSE PublishEvent(c, clients[c].username, message.content)

handleSendFlash(c, message) ==
    IF clients[c].role # AdminRole THEN Ignored
    ELSE IF Length(message.content) = 0 \/ ~Truthy(message.duration) THEN Ignored
    ELSE LET flashMessage == NewMessage(nextMessageId, clients[c].userId,
                                 clients[c].username, AdminRole, message.content, now,
                                 "approved", "flash", message.duration)
         IN  [ Result(addMessage(storage, flashMessage, now),
                      broadcast(clients, [type |-> "flash_message",
                                          message |-> flashMessage]))
               EXCEPT !.nextMessageId = nextMessageId + 1,
                      !.flashTimers = flashTimers \cup
                          {[id |-> flashMessage.id,
                            due |-> now + message.duration * SecondMs]} ]

handleSendWarning(c, message) ==
    IF clients[c].role # AdminRole THEN Ignored
    ELSE IF Length(message.content) = 0 THEN Ignored
    ELSE PublishEvent(c, "Avertissement", message.content)

\* a faulty variant of ConfigUpdates that stores the duration, not the deadline
ConfigUpdates_Duration(config, t) ==
    LET copied == (DOMAIN config) \cap
                  {"enabled", "cooldown", "simulationMode", "directChatEnabled"}
        timer == IF "timerMinutes" \in DOMAIN config
                 THEN [timerEndTime |->
                          IF config.timerMinutes > 0
                          THEN config.timerMinutes * MinuteMs
                          ELSE Undefined]
                 ELSE <<>>
    IN  Spread(timer, [k \in copied |-> config[k]])

\* the updates object handleUpdateConfig builds from the request's config
ConfigUpdates(config, t) ==
    LET copied == (DOMAIN config) \cap
                  {"enabled", "cooldown", "simulationMode", "directChatEnabled"}
        timer == IF "timerMinutes" \in DOMAIN config
                 THEN [timerEndTime |->
                          IF config.timerMinutes > 0
                          THEN t + config.timerMinutes * MinuteMs
                          ELSE Undefined]
                 ELSE <<>>
    IN  Spread(timer, [k \in copied |-> config[k]])

handleUpdateConfig(c, message) ==
    IF clients[c].role # AdminRole THEN Ignored
    ELSE LET st1 == updateConfig(storage, ConfigUpdates(message.config, now), now)
         IN  Result(st1, broadcast(clients, [type |-> "config_update",
                                             config |-> getConfig(st1)]))

\* the tail shared by handleMuteUser and handleUnmuteUser
PublishMutes(st1) ==
    LET st2 == getMutedUsersStore(st1, now)
    IN  Result(st2,
            broadcast(clients, [type |-> "muted_users_update",
                                mutedUsers |-> getMutedUsers(st1, now)])
            \o broadcastUsers(clients, st2))

handleMuteUser(c, message) ==
    IF clients[c].role # AdminRole THEN Ignored
    ELSE LET mutedUntil == now + message.duration * MinuteMs
         IN  PublishMutes(addMutedUser(storage,
                 [username |-> message.username, mutedUntil |-> mutedUntil], now))

handleUnmuteUser(c, message) ==
    IF clients[c].role # AdminRole THEN Ignored
    ELSE PublishMutes(removeMutedUser(storage, message.username, now))

\* the body shared by handleHideUser (TRUE) and handleUnhideUser (FALSE)
SetHidden(username, hidden) ==
    LET user == getUserByUsername(storage, username) IN
    IF user # <<>>
    THEN LET st1 == updateUser(storage, user[1].id, [isHidden |-> hidden])
         IN  Result(st1, broadcastUsers(clients, st1))
    ELSE Ignored

\* a faulty variant of handleHideUser that also silences the hidden handle
handleHideUser_Silences(c, message) ==
    IF clients[c].role # AdminRole THEN Ignored
    ELSE [ SetHidden(message.username, TRUE) EXCEPT !.storage.mutedUsers =
             MapSet(@, "username", message.username,
                    [username |-> message.username, mutedUntil |-> now + MinuteMs]) ]

handleHideUser(c, message) ==
    IF clients[c].role # AdminRole THEN Ignored
    ELSE SetHidden(message.username, TRUE)

handleUnhideUser(c, message) ==
    IF clients[c].role # AdminRole THEN Ignored
    ELSE SetHidden(message.username, FALSE)

PublishBlockedWords(st1) ==
    Result(st1, broadcast(clients, [type |-> "blocked_words_update",
                                    blockedWords |-> getBlockedWords(st1)]))

handleAddBlockedWord(c, message) ==
    IF clients[c].role # AdminRole THEN Ignored
    ELSE PublishBlockedWords(addBlockedWord(storage, message.word, now))

handleRemoveBlockedWord(c, message) ==
    IF clients[c].role # AdminRole THEN Ignored
    ELSE PublishBlockedWords(removeBlockedWord(storage, message.word, now))

\* a faulty variant of handleClearHistory that forgets the role check
handleClearHistory_AnyRole(c, message) ==
    Result(clearMessages(storage, now), broadcast(clients, [type |-> "messages_cleared"]))

handleClearHistory(c, message) ==
    IF clients[c].role # AdminRole THEN Ignored
    ELSE Result(clearMessages(storage, now),
                broadcast(clients, [type |-> "messages_cleared"]))

\* a faulty variant of handleResetTimers that resets the cooldown and leaves
\* the closure timer set
handleResetTimers_CooldownOnly(c, message) ==
    IF clients[c].role # AdminRole THEN Ignored
    ELSE LET st1 == updateConfig(storage, [cooldown |-> 0], now)
         IN  Result(st1, broadcast(clients, [type |-> "config_update",
                                             config |-> getConfig(st1)]))

handleResetTimers(c, message) ==
    IF clients[c].role # AdminRole THEN Ignored
    ELSE LET st1 == updateConfig(storage,
                        [timerEndTime |-> Undefined, cooldown |-> 0], now)
         IN  Result(st1, broadcast(clients, [type |-> "config_update",
                                             config |-> getConfig(st1)]))

handleTriggerAnimation(c, message) ==
    IF clients[c].role # AdminRole THEN Ignored
    ELSE Result(storage, broadcast(clients, [type |-> "animation_trigger",
                                             animationType |-> message.animationType]))

\* the messages the text export lists
ExportedMessages(st) ==
    SelectSeq(getMessages(st),
              LAMBDA m : m.status = "approved" \/ m.type = "event" \/ m.type = "flash")

handleExportHistory(c, message) ==
    IF clients[c].role # AdminRole THEN Ignored
    ELSE IF message.format = "json"
    THEN Result(storage, send(c, [type |-> "export_data", format |-> "json",
                                  data |-> getStorageDataForExport(storage)]))
    ELSE IF message.format = "text"
    THEN Result(storage, send(c, [type |-> "export_data", format |-> "text",
                                  data |-> ExportedMessages(storage)]))
    ELSE Ignored

\* a faulty variant of handleDeleteMessage that tells no one
handleDeleteMessage_Silent(c, message) ==
    IF clients[c].role # AdminRole THEN Ignored
    ELSE Result(deleteMessage(storage, message.messageId, now), <<>>)

handleDeleteMessage(c, message) ==
    IF clients[c].role # AdminRole THEN Ignored
    ELSE Result(deleteMessage(storage, message.messageId, now),
                broadcast(clients, [type |-> "message_deleted",
                                    messageId |-> message.messageId]))

\* switch (type): an event of no known type falls through the switch
handleWebSocketMessage(c, message) ==
    CASE message.type = "auth" -> handleAuth(c, message)
      [] message.type = "send_message" -> handleSendMessage(c, message)
      [] message.type = "typing" -> handleTyping(c, message)
      [] message.type = "approve_message" -> handleApproveMessage(c, message)
      [] message.type = "reject_message" -> handleRejectMessage(c, message)
      [] message.type = "force_publish" -> handleForcePublish(c, message)
      [] message.type = "send_event" -> handleSendEvent(c, message)
      [] message.type = "send_flash" -> handleSendFlash(c, message)
      [] message.type = "update_config" -> handleUpdateConfig(c, message)
      [] message.type = "mute_user" -> handleMuteUser(c, message)
      [] message.type = "unmute_user" -> handleUnmuteUser(c, message)
      [] message.type = "hide_user" -> handleHideUser(c, message)
      [] message.type = "unhide_user" -> handleUnhideUser(c, message)
      [] message.type = "add_blocked_word" -> handleAddBlockedWord(c, message)
      [] message.type = "remove_blocked_word" -> handleRemoveBlockedWord(c, message)
      [] message.type = "clear_history" -> handleClearHistory(c, message)
      [] message.type = "reset_timers" -> handleResetTimers(c, message)
      [] message.type = "trigger_animation" -> handleTriggerAnimation(c, message)
      [] message.type = "export_history" -> handleExportHistory(c, message)
      [] message.type = "delete_message" -> handleDeleteMessage(c, message)
      [] message.type = "send_warning" -> handleSendWarning(c, message)
      [] OTHER -> Ignored

----------------------------------------------------------------------------
(* The Socket.IO handlers of the server entry point (bot-service.ts), which *)
(* imports the same storage object as routes.ts.  io.emit writes to the     *)
(* Socket.IO clients, a transport of its own: its frames carry to = 0.      *)

ioEmit(event, data) == <<[type |-> event, data |-> data, to |-> 0]>>

\* socket.on("chat:moderate", ({ id, action }) => ...)
chatModerate(id, action) ==
    IF action = "approve"
    THEN LET st1 == updateMessage(storage, id, [status |-> "approved"], now)
             msg == First(SelectSeq(getMessages(st1), LAMBDA m : m.id = id))
         IN  Result(st1, IF msg # <<>> THEN ioEmit("chat:newMessage", msg[1]) ELSE <<>>)
    ELSE IF action = "reject"
    THEN Result(updateMessage(storage, id, [status |-> "rejected"], now),
                ioEmit("chat:remove", id))
    ELSE Ignored

----------------------------------------------------------------------------
(* Actions: one turn of the event loop each. *)

\* the step leaves what the handler left
Handled(r, type, c) ==
    /\ storage' = r.storage
    /\ clients' = r.clients
    /\ nextUserId' = r.nextUserId
    /\ nextMessageId' = r.nextMessageId
    /\ flashTimers' = r.flashTimers
    /\ sent' = r.sent
    /\ last' = [type |-> type, conn |-> c]
    /\ UNCHANGED <<now, github>>

\* a step whose history is not kept
Apply(r, type, c) == Handled(r, type, c) /\ UNCHANGED feed

\* ws.on("message"): socket c receives one event
Receive(c, message) ==
    /\ IsOpen(c)
    /\ Apply(handleWebSocketMessage(c, message), message.type, c)

\* wss.on("connection")
Connect(c) ==
    /\ clients[c].readyState = "CLOSED"
    /\ Apply([Ignored EXCEPT !.clients = [clients EXCEPT ![c] = NewSocket]],
             "connection", c)

\* a faulty variant of OnClose that leaves the typing entry in place
OnClose_KeepsTyping(c) ==
    LET cl1 == [clients EXCEPT ![c] = NoSocket] IN
    IF clients[c].userId # Undefined
    THEN LET st1 == removeUser(storage, clients[c].userId)
         IN  [ Result(getTypingUsersStore(st1, now),
                      broadcastUsers(cl1, st1) \o broadcastTypingUsers(cl1, st1, now))
               EXCEPT !.clients = cl1 ]
    ELSE [Ignored EXCEPT !.clients = cl1]

\* ws.on("close"): what the close handler leaves
OnClose(c) ==
    LET cl1 == [clients EXCEPT ![c] = NoSocket] IN
    IF clients[c].userId # Undefined
    THEN LET st1 == removeUser(storage, clients[c].userId)
             st2 == removeUserTyping(st1, clients[c].username)
         IN  [ Result(getTypingUsersStore(st2, now),
                      broadcastUsers(cl1, st2) \o broadcastTypingUsers(cl1, st2, now))
               EXCEPT !.clients = cl1 ]
    ELSE [Ignored EXCEPT !.clients = cl1]

Close(c) ==
    /\ IsOpen(c)
    /\ Apply(OnClose(c), "close", c)

\* ws.on("pong")
Pong(c) ==
    /\ IsOpen(c)
    /\ ~clients[c].isAlive
    /\ Apply([Ignored EXCEPT !.clients = [clients EXCEPT ![c].isAlive = TRUE]], "pong", c)

\* a faulty variant of OnHeartbeat without the grace period: a socket that
\* has not answered yet is terminated with its first ping
OnHeartbeat_NoGrace ==
    [ Ignored EXCEPT !.clients =
        [c \in Conns |->
            IF clients[c].readyState = "CLOSED" THEN clients[c]
            ELSE [clients[c] EXCEPT !.readyState = "CLOSING", !.isAlive = FALSE]] ]

\* the heartbeat, setInterval(..., 30000) of registerRoutes: what one run of
\* the callback leaves.  terminate() destroys the socket, which is CLOSING
\* until its close event is handled; the others are marked and pinged.
OnHeartbeat ==
    [ Ignored EXCEPT !.clients =
        [c \in Conns |->
            IF clients[c].readyState = "CLOSED" THEN clients[c]
            ELSE IF ~clients[c].isAlive
            THEN [clients[c] EXCEPT !.readyState = "CLOSING"]
            ELSE [clients[c] EXCEPT !.isAlive = FALSE]] ]

Heartbeat == Apply(OnHeartbeat, "heartbeat", 0)

\* ws.on("close") of a socket that was terminated
Terminated(c) ==
    /\ clients[c].readyState = "CLOSING"
    /\ Apply(OnClose(c), "terminated", c)

\* a Socket.IO client emits chat:moderate
ChatModerate(id, action) == Apply(chatModerate(id, action), "chat:moderate", 0)

\* the setTimeout callback of handleSendFlash: what it leaves
OnFlashTimeout(timer) ==
    [ Result(deleteMessage(storage, timer.id, now), <<>>)
      EXCEPT !.flashTimers = flashTimers \ {timer} ]

\* the callback runs once its delay has elapsed
FlashTimerFires(timer) ==
    /\ timer \in flashTimers
    /\ timer.due <= now
    /\ Apply(OnFlashTimeout(timer), "flash_timeout", 0)

\* a faulty variant of OnTimerCheck that disables the chat and leaves the
\* timer set
OnTimerCheck_KeepsTimer ==
    LET config == getConfig(storage) IN
    IF Truthy(config.timerEndTime) /\ now >= config.timerEndTime
    THEN LET st1 == updateConfig(storage, [enabled |-> FALSE], now)
             systemMessage == NewMessage(nextMessageId, SystemUserId, "Systeme",
                                  AdminRole, Str(<<"f", "i", "n">>), now,
                                  "approved", "event", Undefined)
             st2 == addMessage(st1, systemMessage, now)
         IN  [ Result(st2,
                   broadcast(clients, [type |-> "message", message |-> systemMessage])
                   \o broadcast(clients, [type |-> "config_update",
                                          config |-> getConfig(st2)]))
               EXCEPT !.nextMessageId = nextMessageId + 1 ]
    ELSE Ignored

\* the storageData object that saveToGitHub serialises
SavedData(st) ==
    [ users |-> <<>>, messages |-> st.messages, mutedUsers |-> st.mutedUsers,
      blockedWords |-> st.blockedWords, config |-> st.config ]

\* a faulty variant of OnSave that falls back to the file when the PUT fails
OnSave_RollsBack(ok) ==
    [ storage |-> IF ok \/ github.content = <<>>
                  THEN [storage EXCEPT !.saveTimeout = Undefined]
                  ELSE [storage EXCEPT !.saveTimeout = Undefined,
                                       !.messages = github.content[1].messages],
      github |-> IF ok
                 THEN [github EXCEPT !.content = <<SavedData(storage)>>, !.puts = @ + 1]
                 ELSE [github EXCEPT !.puts = @ + 1, !.failed = @ + 1] ]

\* the setTimeout callback of scheduleSave, saveToGitHub: what it leaves when
\* the PUT succeeds (ok) and when it fails and the error is logged
OnSave(ok) ==
    [ storage |-> [storage EXCEPT !.saveTimeout = Undefined],
      github |-> IF ok
                 THEN [github EXCEPT !.content = <<SavedData(storage)>>, !.puts = @ + 1]
                 ELSE [github EXCEPT !.puts = @ + 1, !.failed = @ + 1] ]

\* the save timer runs once its delay has elapsed
SaveFires(ok) ==
    /\ storage.saveTimeout # Undefined
    /\ storage.saveTimeout <= now
    /\ storage' = OnSave(ok).storage
    /\ github' = OnSave(ok).github
    /\ sent' = <<>>
    /\ last' = [type |-> "save", conn |-> 0]
    /\ UNCHANGED <<clients, now, nextUserId, nextMessageId, flashTimers, feed>>

\* the closure-timer check, setInterval(..., 1000) of registerRoutes: what one
\* run of the callback leaves
OnTimerCheck ==
    LET config == getConfig(storage) IN
    IF Truthy(config.timerEndTime) /\ now >= config.timerEndTime
    THEN LET st1 == updateConfig(storage,
                        [enabled |-> FALSE, timerEndTime |-> Undefined], now)
             systemMessage == NewMessage(nextMessageId, SystemUserId, "Systeme",
                                  AdminRole, Str(<<"f", "i", "n">>), now,
                                  "approved", "event", Undefined)
             st2 == addMessage(st1, systemMessage, now)
         IN  [ Result(st2,
                   broadcast(clients, [type |-> "message", message |-> systemMessage])
                   \o broadcast(clients, [type |-> "config_update",
                                          config |-> getConfig(st2)]))
               EXCEPT !.nextMessageId = nextMessageId + 1 ]
    ELSE Ignored

TimerCheck == Apply(OnTimerCheck, "timer_check", 0)

\* the passage of time between two turns: Date.now() grows by d
AdvanceTime(d) ==
    /\ now' = now + d
    /\ last' = [type |-> "clock", conn |-> 0]
    /\ sent' = <<>>
    /\ UNCHANGED <<storage, clients, nextUserId, nextMessageId, flashTimers, github, feed>>

\* the history before anything happened: journal is the ids of the messages
\* published, in the order their events were applied to the store; inbox is,
\* per socket, the ids of the message frames written to it since it connected;
\* since is the length of the journal when it connected; queue is, per socket,
\* the pending list of a client that applies the frames written to it
NoFeed ==
    [ journal |-> <<>>, inbox |-> [c \in Conns |-> <<>>], since |-> [c \in Conns |-> 0],
      queue |-> [c \in Conns |-> <<>>] ]

----------------------------------------------------------------------------
(* The server after registerRoutes: an empty store (no storage file yet),   *)
(* no socket connected.                                                     *)

Init ==
    /\ storage = NewStorage
    /\ clients = [c \in Conns |-> NoSocket]
    /\ now = Epoch
    /\ nextUserId = 1
    /\ nextMessageId = 1
    /\ flashTimers = {}
    /\ sent = <<>>
    /\ last = [type |-> "listen", conn |-> 0]
    /\ github = [content |-> <<>>, puts |-> 0, failed |-> 0]
    /\ feed = NoFeed

\* the server after registerRoutes when the storage file holds storageData
InitFrom(storageData) ==
    /\ storage = loadFromGitHub(storageData)
    /\ clients = [c \in Conns |-> NoSocket]
    /\ now = Epoch
    /\ nextUserId = 1
    /\ nextMessageId = Len(storageData.messages) + 1
    /\ flashTimers = {}
    /\ sent = <<>>
    /\ last = [type |-> "listen", conn |-> 0]
    /\ github = [content |-> <<storageData>>, puts |-> 0, failed |-> 0]
    /\ feed = NoFeed

\* randomUUID() is drawn at most users times for sessions and messages times
\* for messages
Capped(users, messages) ==
    /\ nextUserId' <= users + 1
    /\ nextMessageId' <= messages + 1

\* the clock moves by half minutes, MaxClock times at most
ClockStep == MinuteMs \div 2

Tick == AdvanceTime(ClockStep) /\ now' <= Epoch + MaxClock * ClockStep

\* sockets connect in the order of their numbers
ConnectNext(c) == Connect(c) /\ \A d \in Conns : d < c => IsOpen(d)

(* What clients send. *)

\* auth events: a regular user and the admin
AuthEvents ==
    { [type |-> "auth", username |-> "shainez", role |-> "shainez"],
      [type |-> "auth", username |-> "pronBOT", role |-> AdminRole] }

SendMessage(content) == [type |-> "send_message", content |-> content]

UpdateConfig(config) == [type |-> "update_config", config |-> config]

AddBlockedWord(word) == [type |-> "add_blocked_word", word |-> word]

RemoveBlockedWord(word) == [type |-> "remove_blocked_word", word |-> word]

MuteUser(username, duration) ==
    [type |-> "mute_user", username |-> username, duration |-> duration]

UnmuteUser(username) == [type |-> "unmute_user", username |-> username]

\* contents: empty, blank, one with "ab" in other case behind a blank, and one
\* of 1000 and one of 1001 characters
Hello == Str(<<" ", "a", "B">>)

SendContents ==
    { Str(<<>>), Str(<<" ">>), Hello,
      Padded(<<"h">>, MaxContentLength - 1), Padded(<<"A", "b">>, MaxContentLength - 1) }

\* the blocked word an admin adds or removes
Words == { Str(<<"A", "b">>) }

----------------------------------------------------------------------------
(* What the claims speak of. *)

\* socket c completed an auth
Authenticated(c) == IsOpen(c) /\ clients[c].userId # Undefined

IsAdmin(c) == IsOpen(c) /\ clients[c].role = AdminRole

\* what handling send_message{content: x} from socket c leaves
SendResult(c, x) == handleSendMessage(c, SendMessage(x))

\* the handler created a message
Accepted(r) == Len(r.storage.messages) = Len(storage.messages) + 1

\* the message it created
Created(r) == r.storage.messages[Len(r.storage.messages)]

\* the frames of one type among out written to socket d
FramesTo(out, d, type) == SelectSeq(out, LAMBDA f : f.to = d /\ f.type = type)

\* the frames of one type among out
FramesOf(out, type) == SelectSeq(out, LAMBDA f : f.type = type)

\* the payloads of a frame sequence, for the frames that carry a message
Carries(frames, m) == \A i \in 1..Len(frames) : frames[i].message = m

MessageIdsOf(q) == {q[i].id : i \in 1..Len(q)}

\* the moderation events of one message id
Approve(id) == [type |-> "approve_message", messageId |-> id]

Reject(id) == [type |-> "reject_message", messageId |-> id]

ForcePublish(id) == [type |-> "force_publish", messageId |-> id]

DeleteMessage(id) == [type |-> "delete_message", messageId |-> id]

----------------------------------------------------------------------------
(* SpecDirect: sockets connect and authenticate, users and the admin send,  *)
(* the admin switches direct mode on and off and approves, force-publishes  *)
(* and rejects what is queued.                                              *)

NextDirect ==
    \/ \E c \in Conns : ConnectNext(c)
    \/ \E c \in Conns, a \in AuthEvents :
          ~Authenticated(c) /\ Receive(c, a) /\ Capped(MaxConns, MaxSent)
    \/ \E c \in Conns :
          /\ Authenticated(c)
          /\ Receive(c, SendMessage(Hello))
          /\ Capped(MaxConns, MaxSent)
    \/ \E c \in Conns, b \in BOOLEAN :
          IsAdmin(c) /\ Receive(c, UpdateConfig([directChatEnabled |-> b]))
    \/ \E c \in Conns, id \in 1..MaxSent : IsAdmin(c) /\ Receive(c, Approve(id))
    \/ \E c \in Conns, id \in 1..MaxSent : IsAdmin(c) /\ Receive(c, ForcePublish(id))
    \/ \E c \in Conns, id \in 1..MaxSent : IsAdmin(c) /\ Receive(c, Reject(id))

SpecDirect == Init /\ [][NextDirect]_vars

\* C1: in every reachable state, whatever send_message a socket sends, a
\* message the handler creates has type normal, and status approved if the
\* sender's role is admin or config.directChatEnabled holds in that state, and
\* status pending otherwise.
C1_StatusByRoleAndMode ==
    \A c \in Conns, x \in SendContents :
        IsOpen(c) =>
            LET r == SendResult(c, x) IN
            Accepted(r) =>
                /\ Created(r).type = "normal"
                /\ Created(r).status =
                      IF clients[c].role = AdminRole \/ storage.config.directChatEnabled
                      THEN "approved" ELSE "pending"

\* a regular user's send was accepted in direct mode and came out approved
C1_Witness ==
    /\ last.type = "send_message"
    /\ storage.config.directChatEnabled
    /\ clients[last.conn].role # AdminRole
    /\ \E i \in 1..Len(storage.messages) :
          /\ storage.messages[i].userId = clients[last.conn].userId
          /\ storage.messages[i].status = "approved"
          /\ storage.messages[i].type = "normal"
          /\ FramesOf(sent, "message") # <<>>

\* C6: when an accepted send_message yields a pending message, pending_message
\* frames carrying it go to the sender and to every open admin-role socket and
\* to no other socket, and no message frame is written; when it yields an
\* approved message, every open socket gets a message frame carrying it; and
\* no message frame ever written carries the id of a message that is still
\* pending in the store.
C6_PendingFanOut ==
    /\ \A c \in Conns, x \in SendContents :
          IsOpen(c) =>
              LET r == SendResult(c, x)
                  m == Created(r)
              IN
              Accepted(r) =>
                  IF m.status = "pending"
                  THEN /\ \A d \in Conns :
                             /\ FramesTo(r.sent, d, "pending_message") # <<>>
                                   <=> (d = c \/ IsAdmin(d))
                             /\ Carries(FramesTo(r.sent, d, "pending_message"), m)
                       /\ FramesOf(r.sent, "message") = <<>>
                  ELSE \A d \in Conns :
                          IsOpen(d) =>
                             /\ Len(FramesTo(r.sent, d, "message")) = 1
                             /\ Carries(FramesTo(r.sent, d, "message"), m)
    /\ \A i \in 1..Len(sent) :
          sent[i].type = "message" =>
              sent[i].message.id \notin MessageIdsOf(getPendingMessages(storage))

\* a regular user's send was queued while an admin and another socket were open
C6_Witness ==
    /\ last.type = "send_message"
    /\ ~IsAdmin(last.conn)
    /\ Len(FramesTo(sent, last.conn, "pending_message")) = 1
    /\ \E d \in Conns : IsAdmin(d) /\ Len(FramesTo(sent, d, "pending_message")) = 1
    /\ getPendingMessages(storage) # <<>>

\* C7 (the step): in direct mode an accepted send_message of a socket whose
\* role is not admin creates an approved message, writes a message frame
\* carrying it to every open socket and no pending_message frame, and the
\* message is not in getPendingMessages().
C7_DirectStep ==
    \A c \in Conns, x \in SendContents :
        IsOpen(c) /\ clients[c].role # AdminRole /\ storage.config.directChatEnabled =>
            LET r == SendResult(c, x)
                m == Created(r)
            IN
            Accepted(r) =>
                /\ m.status = "approved"
                /\ \A d \in Conns :
                      IsOpen(d) => /\ FramesTo(r.sent, d, "message") # <<>>
                                   /\ Carries(FramesTo(r.sent, d, "message"), m)
                /\ FramesOf(r.sent, "pending_message") = <<>>
                /\ m.id \notin MessageIdsOf(getPendingMessages(r.storage))

\* C7 (afterwards): a message that is not in getPendingMessages() is not in it
\* after any step either
C7_StaysOut ==
    \A i \in 1..Len(storage.messages) :
        storage.messages[i].id \notin MessageIdsOf(getPendingMessages(storage))
            => storage.messages[i].id \notin MessageIdsOf(getPendingMessages(storage'))

\* C7: with config.directChatEnabled = true, an accepted send_message from a
\* non-admin produces an approved message that is broadcast as a message frame
\* in the same step, with no pending_message frame, and the message never
\* appears in getPendingMessages().
C7_DirectMode == []C7_DirectStep /\ [][C7_StaysOut]_vars

\* a regular user's send was broadcast in direct mode, with nothing queued,
\* while another socket was open
C7_Witness ==
    /\ last.type = "send_message"
    /\ clients[last.conn].role # AdminRole
    /\ storage.config.directChatEnabled
    /\ \A d \in Conns : IsOpen(d) /\ Len(FramesTo(sent, d, "message")) = 1
    /\ FramesOf(sent, "pending_message") = <<>>
    /\ getPendingMessages(storage) = <<>>
    /\ storage.messages # <<>>

(* SpecDisabled: as SpecDirect, but the admin switches the chat off and on, *)
(* and users also send an empty content.                                    *)

NextDisabled ==
    \/ \E c \in Conns : ConnectNext(c)
    \/ \E c \in Conns, a \in AuthEvents :
          ~Authenticated(c) /\ Receive(c, a) /\ Capped(MaxConns, MaxSent)
    \/ \E c \in Conns, x \in {Str(<<>>), Hello} :
          /\ Authenticated(c)
          /\ Receive(c, SendMessage(x))
          /\ Capped(MaxConns, MaxSent)
    \/ \E c \in Conns, b \in BOOLEAN :
          IsAdmin(c) /\ Receive(c, UpdateConfig([enabled |-> b]))

SpecDisabled == Init /\ [][NextDisabled]_vars

\* C2: while config.enabled = false, whatever send_message an authenticated
\* socket whose role is not admin sends, the message list is unchanged and an
\* error frame is written to the sender; a send of the admin gets no
\* chat-disabled error.
C2_DisabledRejects ==
    \A c \in Conns, x \in SendContents :
        Authenticated(c) /\ ~storage.config.enabled =>
            LET r == SendResult(c, x) IN
            IF clients[c].role # AdminRole
            THEN /\ r.storage.messages = storage.messages
                 /\ FramesTo(r.sent, c, "error") # <<>>
            ELSE \A i \in 1..Len(r.sent) :
                    r.sent[i].type = "error" => r.sent[i].message # ChatDisabledError

\* C2, for the contents that pass the handler's validation (non-blank, at
\* most 1000 characters): the part of the claim the code keeps.
C2_DisabledRejectsValid ==
    \A c \in Conns, x \in SendContents :
        /\ Authenticated(c) 
        /\ ~storage.config.enabled
        /\ Length(trim(x)) > 0 
        /\ Length(x) <= MaxContentLength
        => LET r == SendResult(c, x) IN
           IF clients[c].role # AdminRole
           THEN /\ r.storage.messages = storage.messages
                /\ FramesTo(r.sent, c, "error") # <<>>
           ELSE \A i \in 1..Len(r.sent) :
                   r.sent[i].type = "error" => r.sent[i].message # ChatDisabledError

(* SpecBlocked: the admin blocks and unblocks a word, users and the admin   *)
(* send contents with and without it, short and over-long.                  *)

NextBlocked ==
    \/ \E c \in Conns : ConnectNext(c)
    \/ \E c \in Conns, a \in AuthEvents :
          ~Authenticated(c) /\ Receive(c, a) /\ Capped(MaxConns, MaxSent)
    \/ \E c \in Conns, x \in SendContents :
          /\ Authenticated(c)
          /\ Receive(c, SendMessage(x))
          /\ Capped(MaxConns, MaxSent)
    \/ \E c \in Conns, w \in Words : IsAdmin(c) /\ Receive(c, AddBlockedWord(w))
    \/ \E c \in Conns, w \in Words : IsAdmin(c) /\ Receive(c, RemoveBlockedWord(w))

SpecBlocked == Init /\ [][NextBlocked]_vars

\* the content contains a currently blocked word, whatever the case
HasBlockedWord(x) ==
    \E i \in 1..Len(storage.blockedWords) :
        includes(toLowerCase(x), toLowerCase(storage.blockedWords[i].word))

\* C3: whatever send_message an authenticated socket of any role sends, if
\* the content contains a currently blocked word as a case-insensitive
\* substring then no message is created and an error frame is written to the
\* sender; and with no blocked word no blocked-word error is written.
C3_BlockedWordRejects ==
    \A c \in Conns, x \in SendContents :
        Authenticated(c) =>
            LET r == SendResult(c, x) IN
            /\ HasBlockedWord(x) =>
                  /\ r.storage.messages = storage.messages
                  /\ FramesTo(r.sent, c, "error") # <<>>
            /\ storage.blockedWords = <<>> =>
                  \A i \in 1..Len(r.sent) :
                     r.sent[i].type = "error" => r.sent[i].message # BlockedWordError

\* C3, for the contents that pass the handler's validation (non-blank, at
\* most 1000 characters): the part of the claim the code keeps.
C3_BlockedWordRejectsValid ==
    \A c \in Conns, x \in SendContents :
        Authenticated(c) /\ Length(trim(x)) > 0 /\ Length(x) <= MaxContentLength =>
            LET r == SendResult(c, x) IN
            /\ HasBlockedWord(x) =>
                  /\ r.storage.messages = storage.messages
                  /\ FramesTo(r.sent, c, "error") # <<>>
            /\ storage.blockedWords = <<>> =>
                  \A i \in 1..Len(r.sent) :
                     r.sent[i].type = "error" => r.sent[i].message # BlockedWordError

(* SpecMute: sockets connect, authenticate, close and connect again, the    *)
(* admin mutes the regular user for one or two minutes, users send, and the *)
(* clock moves.                                                             *)

NextMute ==
    \/ \E c \in Conns : ConnectNext(c)
    \/ \E c \in Conns, a \in AuthEvents :
          ~Authenticated(c) /\ Receive(c, a) /\ Capped(MaxConns + 1, MaxSent)
    \/ \E c \in Conns : Close(c)
    \/ \E c \in Conns, x \in {Str(<<>>), Hello} :
          /\ Authenticated(c)
          /\ Receive(c, SendMessage(x))
          /\ Capped(MaxConns + 1, MaxSent)
    \/ \E c \in Conns, d \in 1..2 : IsAdmin(c) /\ Receive(c, MuteUser("shainez", d))
    \/ Tick

SpecMute == Init /\ [][NextMute]_vars

\* the expiry the store holds for handle h, if any
MutedUntil(h) == First(SelectSeq(storage.mutedUsers, LAMBDA mu : mu.username = h))

\* h is under a mute that has not expired
Muted(h) == MutedUntil(h) # <<>> /\ now < MutedUntil(h)[1].mutedUntil

\* C4 (the mute): mute_user(h, d) processed at time T leaves the expiry
\* T + d*60000 under h and leaves every socket as it was.
C4_MuteStep ==
    \A c \in Conns, d \in 1..2 :
        IsAdmin(c) =>
            LET r == handleMuteUser(c, MuteUser("shainez", d)) IN
            /\ \E i \in 1..Len(r.storage.mutedUsers) :
                  r.storage.mutedUsers[i] =
                     [username |-> "shainez", mutedUntil |-> now + d * MinuteMs]
            /\ r.clients = clients

\* C4 (the sends): while h is under a mute that has not expired, whatever
\* send_message a socket authenticated as h sends, on whatever connection,
\* creates no message and writes an error frame to that socket.
C4_MutedSends ==
    \A c \in Conns, x \in SendContents :
        Authenticated(c) /\ Muted(clients[c].username) =>
            LET r == SendResult(c, x) IN
            /\ r.storage.messages = storage.messages
            /\ FramesTo(r.sent, c, "error") # <<>>

\* C4: after mute_user(h, d) processed at T, every send_message from handle h
\* processed before T + d*60000 creates no message and returns an error, also
\* on a new connection of h; the mute does not close h's connection.
C4_MuteHolds == C4_MuteStep /\ C4_MutedSends

\* C4, for the contents that pass the handler's validation (non-blank, at
\* most 1000 characters): the part of the claim the code keeps.
C4_MuteHoldsValid ==
    /\ C4_MuteStep
    /\ \A c \in Conns, x \in SendContents :
          /\ Authenticated(c)
          /\ Muted(clients[c].username)
          /\ Length(trim(x)) > 0
          /\ Length(x) <= MaxContentLength
          => LET r == SendResult(c, x) IN
             /\ r.storage.messages = storage.messages
             /\ FramesTo(r.sent, c, "error") # <<>>

\* the muted user came back on a new connection and had a send refused
C4_ReconnectWitness ==
    /\ last.type = "send_message"
    /\ Muted(clients[last.conn].username)
    /\ clients[last.conn].userId > 1
    /\ FramesTo(sent, last.conn, "error") # <<>>

(* SpecQueue: sockets connect and authenticate, users send, and the admin   *)
(* approves, rejects and deletes messages by id.                            *)

NextQueue ==
    \/ \E c \in Conns : ConnectNext(c)
    \/ \E c \in Conns, a \in AuthEvents :
          ~Authenticated(c) /\ Receive(c, a) /\ Capped(MaxConns, MaxMessages)
    \/ \E c \in Conns :
          /\ Authenticated(c)
          /\ Receive(c, SendMessage(Hello))
          /\ Capped(MaxConns, MaxMessages)
    \/ \E c \in Conns, id \in 1..MaxMessages : IsAdmin(c) /\ Receive(c, Approve(id))
    \/ \E c \in Conns, id \in 1..MaxMessages : IsAdmin(c) /\ Receive(c, Reject(id))
    \/ \E c \in Conns, id \in 1..MaxMessages :
          IsAdmin(c) /\ Receive(c, DeleteMessage(id))

SpecQueue == Init /\ [][NextQueue]_vars

\* the pending queue is in the order of the draws of the message ids
InProcessingOrder(q) == \A i, j \in 1..Len(q) : i < j => q[i].id < q[j].id

AdminAuth == [type |-> "auth", username |-> "pronBOT", role |-> AdminRole]

C10_RejectIdempotent ==
    \A c \in Conns, id \in 1..(MaxMessages + 1) :
        IsAdmin(c) =>
            LET r == handleRejectMessage(c, Reject(id)) IN
            /\ id \notin MessageIdsOf(r.storage.messages)
            /\ id \notin MessageIdsOf(storage.messages) =>
                  /\ r.storage.messages = storage.messages
                  /\ r.sent = <<>>

\* C10, the part the code keeps: the reject leaves no message with that id,
\* and leaves every other message as it was.
C10_RejectRemoves ==
    \A c \in Conns, id \in 1..(MaxMessages + 1) :
        IsAdmin(c) =>
            LET r == handleRejectMessage(c, Reject(id)) IN
            r.storage.messages = SelectSeq(storage.messages, LAMBDA m : m.id # id)

(* SpecAdmin: the storage file holds a queued message, a mute and a blocked *)
(* word; sockets connect and authenticate, and the sockets whose role is    *)
(* not the admin's send each of the admin events.                           *)

Snapshot ==
    [ messages |-> << NewMessage(1, 0, "shainez", "shainez", Str(<<"a", "B">>), 1,
                                 "pending", "normal", Undefined) >>,
      mutedUsers |-> << [username |-> "ad", mutedUntil |-> Epoch + MinuteMs] >>,
      blockedWords |-> << [word |-> Str(<<"a", "b">>), addedAt |-> 1] >> ]

AdminEvents ==
    { Approve(1), Reject(1), ForcePublish(1), DeleteMessage(1),
      [type |-> "send_event", content |-> Hello],
      [type |-> "send_flash", content |-> Hello, duration |-> 1],
      [type |-> "send_warning", content |-> Hello],
      UpdateConfig([enabled |-> FALSE, timerMinutes |-> 1]),
      MuteUser("shainez", 1), UnmuteUser("ad"),
      [type |-> "hide_user", username |-> "shainez"],
      [type |-> "unhide_user", username |-> "shainez"],
      AddBlockedWord(Str(<<"h">>)), RemoveBlockedWord(Str(<<"a", "b">>)),
      [type |-> "clear_history"], [type |-> "reset_timers"],
      [type |-> "trigger_animation", animationType |-> "confetti"],
      [type |-> "export_history", format |-> "json"] }

AdminEventTypes == {e.type : e \in AdminEvents}

NextAdmin ==
    \/ \E c \in Conns : ConnectNext(c)
    \/ \E c \in Conns, a \in AuthEvents :
          ~Authenticated(c) /\ Receive(c, a) /\ Capped(MaxConns, MaxSent)
    \/ \E c \in Conns, e \in AdminEvents : ~IsAdmin(c) /\ Receive(c, e)

SpecAdmin == InitFrom(Snapshot) /\ [][NextAdmin]_vars

\* C5: in every reachable state, each of the eighteen admin events, received
\* from an open socket whose role is not the admin's (authenticated or not),
\* leaves the whole store, the sockets and the timers as they were and writes
\* no frame to anyone.
C5_AdminOnly ==
    \A c \in Conns, e \in AdminEvents :
        IsOpen(c) /\ clients[c].role # AdminRole =>
            LET r == handleWebSocketMessage(c, e) IN
            /\ r.storage = storage
            /\ r.clients = clients
            /\ r.flashTimers = flashTimers
            /\ r.nextMessageId = nextMessageId
            /\ r.sent = <<>>

\* an authenticated regular user sent clear_history while an admin was
\* connected: the queue is still there and nothing was written
C5_Witness ==
    /\ last.type = "clear_history"
    /\ Authenticated(last.conn)
    /\ ~IsAdmin(last.conn)
    /\ \E d \in Conns : IsAdmin(d)
    /\ storage.messages = Snapshot.messages
    /\ sent = <<>>

(* SpecStore: the storage file holds any list of up to MaxLoaded messages,  *)
(* of any status, type and forcePublished flag; the first socket connects   *)
(* and authenticates, and is sent the approved view in its initial_state.   *)

MessageShapes ==
    [ status : {"pending", "approved", "rejected"},
      type : {"normal", "event", "flash"},
      forcePublished : BOOLEAN ]

\* the message of a shape, under the id of its place in the file
Shaped(shape, id) ==
    [ NewMessage(id, 0, "shainez", "shainez", Str(<<"a", "B">>), 1,
                 shape.status, shape.type, Undefined)
      EXCEPT !.forcePublished = shape.forcePublished ]

LoadedLists ==
    UNION { [1..n -> MessageShapes] : n \in 0..MaxLoaded }

InitStore ==
    \E shapes \in LoadedLists :
        InitFrom([ messages |-> [i \in 1..Len(shapes) |-> Shaped(shapes[i], i)],
                   mutedUsers |-> <<>>,
                   blockedWords |-> <<>> ])

NextStore ==
    \/ Connect(1)
    \/ \E a \in AuthEvents : ~Authenticated(1) /\ Receive(1, a)

SpecStore == InitStore /\ [][NextStore]_vars

\* m belongs to the approved view
InApprovedView(m) == m.status = "approved" \/ m.type # "normal" \/ m.forcePublished

\* C9: every message of the store whose type is not normal is in
\* getApprovedMessages() whatever its status, and getApprovedMessages() is
\* exactly the subsequence, in insertion order, of the messages with status
\* approved or type other than normal or forcePublished; this is the list an
\* authenticating socket is sent as initial_state.messages.
C9_ApprovedView ==
    LET a == getApprovedMessages(storage) IN
    /\ \A i \in 1..Len(storage.messages) :
          storage.messages[i].type # "normal" =>
              \E j \in 1..Len(a) : a[j] = storage.messages[i]
    /\ a = SelectSeq(storage.messages, InApprovedView)
    /\ \A i \in 1..Len(sent) :
          sent[i].type = "initial_state" =>
              sent[i].messages = SelectSeq(storage.messages, InApprovedView)

\* a socket authenticated and was sent a rejected flash message, and not the
\* pending normal message stored before it
C9_Witness ==
    /\ last.type = "auth"
    /\ Len(storage.messages) = 2
    /\ storage.messages[1].type = "normal"
    /\ storage.messages[1].status = "pending"
    /\ ~storage.messages[1].forcePublished
    /\ storage.messages[2].type = "flash"
    /\ storage.messages[2].status = "rejected"
    /\ ~storage.messages[2].forcePublished
    /\ \E i \in 1..Len(sent) :
          /\ sent[i].type = "initial_state"
          /\ sent[i].messages = <<storage.messages[2]>>

----------------------------------------------------------------------------
(* SpecModerate: users send, the admin rejects over the WebSocket, and a    *)
(* Socket.IO client moderates by id.                                        *)

ModerateActions == {"approve", "reject"}

NextModerate ==
    \/ \E c \in Conns : ConnectNext(c)
    \/ \E c \in Conns, a \in AuthEvents :
          ~Authenticated(c) /\ Receive(c, a) /\ Capped(MaxConns, MaxSent)
    \/ \E c \in Conns :
          /\ Authenticated(c)
          /\ Receive(c, SendMessage(Hello))
          /\ Capped(MaxConns, MaxSent)
    \/ \E c \in Conns, id \in 1..MaxSent : IsAdmin(c) /\ Receive(c, Reject(id))
    \/ \E id \in 1..MaxSent, action \in ModerateActions : ChatModerate(id, action)

SpecModerate == Init /\ [][NextModerate]_vars

\* C11: in every reachable state no message in the store has status rejected:
\* rejection removes the message instead of retaining it, and no other
\* operation sets that status.
C11_NoRejected ==
    \A i \in 1..Len(storage.messages) : storage.messages[i].status # "rejected"

\* the part of C11 that the WebSocket handler keeps: reject_message from the
\* admin leaves no message of status rejected that was not there before
C11_RejectMessageRemoves ==
    \A c \in Conns, id \in 1..MaxSent :
        IsAdmin(c) =>
            LET r == handleRejectMessage(c, Reject(id)) IN
            /\ \A i \in 1..Len(r.storage.messages) : r.storage.messages[i].id # id
            /\ \A i \in 1..Len(r.storage.messages) :
                  r.storage.messages[i].status = "rejected" =>
                      \E j \in 1..Len(storage.messages) :
                          storage.messages[j] = r.storage.messages[i]

----------------------------------------------------------------------------
(* SpecConfig: sockets connect, one admin authenticates and patches config, *)
(* and time passes.                                                         *)

\* the part of record r over the fields in keys
Restrict(r, keys) == [k \in keys |-> r[k]]

\* update_config payloads that carry all five fields
FullPatches ==
    [ enabled : BOOLEAN, cooldown : {0, 5}, simulationMode : BOOLEAN,
      directChatEnabled : BOOLEAN, timerMinutes : 0..MaxMinutes ]

PatchFields == {"enabled", "cooldown", "simulationMode", "directChatEnabled",
                "timerMinutes"}

\* every update_config payload over a subset of the five fields
ConfigPatches ==
    { Restrict(p, fields) : p \in FullPatches, fields \in SUBSET PatchFields }

\* the patches the admin sends in SpecConfig: cooldown 5, enabled, a timer of
\* no or one minute, or such a timer together with enabled
ConfigSteps ==
    { p \in ConfigPatches :
        /\ \/ DOMAIN p = {"cooldown"} /\ p.cooldown = 5
           \/ DOMAIN p = {"enabled"}
           \/ DOMAIN p = {"timerMinutes"}
           \/ DOMAIN p = {"timerMinutes", "enabled"}
        /\ "timerMinutes" \in DOMAIN p => p.timerMinutes <= 1 }

NextConfig ==
    \/ \E c \in Conns : ConnectNext(c)
    \/ \E c \in Conns :
          /\ \A d \in Conns : ~Authenticated(d)
          /\ Receive(c, AdminAuth)
          /\ Capped(MaxConns, MaxSent)
    \/ \E c \in Conns, p \in ConfigSteps : IsAdmin(c) /\ Receive(c, UpdateConfig(p))
    \/ Tick

SpecConfig == Init /\ [][NextConfig]_vars

\* the config field that a field of the update_config payload speaks of
ConfigField(k) == IF k = "timerMinutes" THEN "timerEndTime" ELSE k

\* the fields of the stored config
ConfigFields == DOMAIN NewStorage.config

\* every patch of the store's updateConfig: values for a subset of the fields
StorePatches ==
    { Restrict(u, fields) :
        u \in [ enabled : BOOLEAN, cooldown : {0, 5}, simulationMode : BOOLEAN,
                directChatEnabled : BOOLEAN, timerEndTime : {Undefined, Epoch} ],
        fields \in SUBSET ConfigFields }

\* C12: config updates have partial-patch semantics.  In every reachable
\* state, updateConfig(patch) gives the patched fields the patch's values and
\* leaves every other config field at its prior value; and an admin's
\* update_config carrying any subset of enabled, cooldown, simulationMode,
\* directChatEnabled and timerMinutes changes only the fields mentioned
\* (timerMinutes speaks of timerEndTime) and leaves every other config field
\* at its prior value, adding and dropping no field.
C12_PartialPatch ==
    /\ \A u \in StorePatches :
          LET config == getConfig(updateConfig(storage, u, now)) IN
          /\ DOMAIN config = ConfigFields
          /\ \A f \in ConfigFields :
                config[f] = IF f \in DOMAIN u THEN u[f] ELSE storage.config[f]
    /\ \A c \in Conns, p \in ConfigPatches :
          IsAdmin(c) =>
              LET config == getConfig(handleUpdateConfig(c, UpdateConfig(p)).storage)
                  mentioned == {ConfigField(k) : k \in DOMAIN p}
              IN
              /\ DOMAIN config = ConfigFields
              /\ \A f \in ConfigFields \ mentioned : config[f] = storage.config[f]
              /\ \A k \in DOMAIN p \ {"timerMinutes"} : config[k] = p[k]

\* cooldown is still 5 after later updates of enabled and of the timer
C12_Witness ==
    /\ last.type = "update_config"
    /\ storage.config.cooldown = 5
    /\ ~storage.config.enabled
    /\ storage.config.timerEndTime = now + MinuteMs
    /\ now > Epoch
    /\ FramesOf(sent, "config_update") # <<>>

\* the times at which an event can have been processed so far
ProcessingTimes == {Epoch + k * ClockStep : k \in 0..MaxClock} \cap 0..now

\* C13: an admin update_config with timerMinutes = n > 0 processed at time T
\* sets config.timerEndTime to T + n * 60000, and with timerMinutes = 0 clears
\* it, whatever else the payload carries; and in every reachable state
\* timerEndTime is unset or is such a deadline T + n * 60000 of a processing
\* time T, never the raw n or the duration n * 60000.
C13_AbsoluteDeadline ==
    /\ \A c \in Conns, p \in ConfigPatches :
          IsAdmin(c) /\ "timerMinutes" \in DOMAIN p =>
              handleUpdateConfig(c, UpdateConfig(p)).storage.config.timerEndTime =
                  IF p.timerMinutes > 0 THEN now + p.timerMinutes * MinuteMs
                  ELSE Undefined
    /\ \/ storage.config.timerEndTime = Undefined
       \/ /\ \E T \in ProcessingTimes, n \in 1..MaxMinutes :
                storage.config.timerEndTime = T + n * MinuteMs
          /\ \A n \in 1..MaxMinutes :
                storage.config.timerEndTime \notin {n, n * MinuteMs}

\* a timer of one minute was set after the clock had moved
C13_Witness ==
    /\ last.type = "update_config"
    /\ now > Epoch
    /\ storage.config.timerEndTime = now + MinuteMs

----------------------------------------------------------------------------
(* SpecTimer: sockets connect, one admin authenticates, sets and clears the *)
(* closure timer and switches the chat off and on; time passes and the      *)
(* monitor runs.                                                            *)

TimerSteps ==
    { [timerMinutes |-> 1], [timerMinutes |-> 0], [enabled |-> FALSE], [enabled |-> TRUE] }

NextTimer ==
    \/ \E c \in Conns : ConnectNext(c)
    \/ \E c \in Conns :
          /\ \A d \in Conns : ~Authenticated(d)
          /\ Receive(c, AdminAuth)
          /\ Capped(MaxConns, MaxMessages)
    \/ \E c \in Conns, p \in TimerSteps : IsAdmin(c) /\ Receive(c, UpdateConfig(p))
    \/ Tick
    \/ TimerCheck /\ Capped(MaxConns, MaxMessages)

SpecTimer == Init /\ [][NextTimer]_vars

\* the timer is set and its deadline has passed
TimerDue ==
    /\ storage.config.timerEndTime # Undefined
    /\ now >= storage.config.timerEndTime

\* the system messages of the closure timer in a message list
ClosedMessages(q) == SelectSeq(q, LAMBDA m : m.type = "event" /\ m.userId = SystemUserId)

\* what one run of the monitor leaves, by whether the timer is due
C14_TickOutcome ==
    LET r == OnTimerCheck IN
    IF TimerDue
    THEN /\ ~r.storage.config.enabled
         /\ r.storage.config.timerEndTime = Undefined
         /\ Accepted(r)
         /\ SubSeq(r.storage.messages, 1, Len(storage.messages)) = storage.messages
         /\ Created(r).type = "event"
         /\ Created(r).userId = SystemUserId
         /\ Created(r).status = "approved"
         /\ Len(FramesOf(r.sent, "message")) + Len(FramesOf(r.sent, "config_update"))
               = Len(r.sent)
         /\ \A d \in Conns :
               /\ FramesTo(r.sent, d, "message") =
                     IF IsOpen(d)
                     THEN send(d, [type |-> "message", message |-> Created(r)])
                     ELSE <<>>
               /\ FramesTo(r.sent, d, "config_update") =
                     IF IsOpen(d)
                     THEN send(d, [type |-> "config_update", config |-> r.storage.config])
                     ELSE <<>>
    ELSE /\ r.storage.messages = storage.messages
         /\ r.storage.config = storage.config
         /\ r.sent = <<>>

\* a step that adds a system message is a run of the monitor on a due timer,
\* and a step that sets a timer where none was set is an update_config
C14_UntilNewTimer ==
    /\ Len(ClosedMessages(storage'.messages)) > Len(ClosedMessages(storage.messages)) =>
          /\ last'.type = "timer_check"
          /\ TimerDue
          /\ Len(ClosedMessages(storage'.messages)) = Len(ClosedMessages(storage.messages)) + 1
          /\ storage'.config.timerEndTime = Undefined
    /\ storage.config.timerEndTime = Undefined /\ storage'.config.timerEndTime # Undefined =>
          last'.type = "update_config"

\* C14: if config.timerEndTime is set and has passed when the monitor runs,
\* then config.enabled becomes false, timerEndTime is cleared, exactly one
\* system event message is appended and written, with the new config, to every
\* open socket; a run of the monitor with no timer due appends and writes
\* nothing, and once the timer is cleared only an update_config sets one
\* again, so every later run appends no further system message until an admin
\* sets a new timer.
C14_ClosureTimer == []C14_TickOutcome /\ [][C14_UntilNewTimer]_vars

\* the monitor closed the chat once, and its next run added nothing
C14_Witness ==
    /\ last.type = "timer_check"
    /\ sent = <<>>
    /\ Len(ClosedMessages(storage.messages)) = 1
    /\ ~storage.config.enabled
    /\ storage.config.timerEndTime = Undefined

\* C15: the closure-timer tick fires only when config.enabled is still true
\* and a timer is still set: in every reachable state where the chat is
\* disabled or no timer is set, a run of the monitor appends no system message
\* and writes no frame.
C15_OnlyWhenEnabled ==
    ~storage.config.enabled \/ storage.config.timerEndTime = Undefined =>
        /\ OnTimerCheck.storage.messages = storage.messages
        /\ OnTimerCheck.sent = <<>>

\* the part of C15 that holds: with no timer set, a run of the monitor leaves
\* everything as it was
C15_OnlyWhenTimerSet ==
    storage.config.timerEndTime = Undefined => OnTimerCheck = Ignored

----------------------------------------------------------------------------
(* SpecFlash: sockets connect, authenticate and close, admins send flash    *)
(* messages of one or two seconds, the clock moves by seconds and the       *)
(* timeouts run.                                                            *)

SendFlash(content, duration) ==
    [type |-> "send_flash", content |-> content, duration |-> duration]

FlashDurations == 1..MaxFlashSeconds

FlashTick == AdvanceTime(SecondMs) /\ now' <= Epoch + MaxClock * SecondMs

NextFlash ==
    \/ \E c \in Conns : ConnectNext(c)
    \/ \E c \in Conns, a \in AuthEvents :
          ~Authenticated(c) /\ Receive(c, a) /\ Capped(MaxConns, MaxSent)
    \/ \E c \in Conns, d \in FlashDurations :
          /\ IsAdmin(c)
          /\ Receive(c, SendFlash(Hello, d))
          /\ Capped(MaxConns, MaxSent)
    \/ \E c \in Conns : Close(c)
    \/ FlashTick
    \/ \E timer \in flashTimers : FlashTimerFires(timer)

SpecFlash == Init /\ [][NextFlash]_vars

\* out holds a frame to socket d that announces the removal of message id
DeletionFrameTo(out, d, id) ==
    \E i \in 1..Len(out) :
        /\ out[i].to = d
        /\ out[i].type \in {"message_deleted", "message_rejected", "messages_cleared"}
        /\ out[i].type # "messages_cleared" => out[i].messageId = id

\* what send_flash{content, duration: d} from an admin leaves: the flash
\* message in the store, a flash_message frame to every open socket, and a
\* timeout due d seconds later
FlashSent(c, d) ==
    LET r == handleSendFlash(c, SendFlash(Hello, d)) IN
    /\ Accepted(r)
    /\ Created(r).type = "flash"
    /\ Created(r).flashDuration = d
    /\ \A e \in Conns :
          FramesTo(r.sent, e, "flash_message") =
              IF IsOpen(e)
              THEN send(e, [type |-> "flash_message", message |-> Created(r)])
              ELSE <<>>
    /\ r.flashTimers = flashTimers \cup {[id |-> Created(r).id, due |-> now + d * SecondMs]}

\* C16: an admin send_flash with duration d adds a flash message and
\* broadcasts flash_message; the message stays in the store until d seconds
\* have elapsed; and once they have, the timeout deletes it from the store and
\* writes a deletion frame for its id to every open socket, whether or not
\* the sending admin is still connected.
C16_FlashLifecycle ==
    /\ \A c \in Conns, d \in FlashDurations : IsAdmin(c) => FlashSent(c, d)
    /\ \A timer \in flashTimers :
          /\ timer.id \in MessageIdsOf(storage.messages)
          /\ timer.due <= now =>
                LET r == OnFlashTimeout(timer) IN
                /\ timer.id \notin MessageIdsOf(r.storage.messages)
                /\ \A e \in Conns : IsOpen(e) => DeletionFrameTo(r.sent, e, timer.id)

\* the part of C16 that holds: the flash message is added and broadcast, stays
\* while its timeout is pending and is deleted by it, whoever is connected
C16_FlashDeleted ==
    /\ \A c \in Conns, d \in FlashDurations : IsAdmin(c) => FlashSent(c, d)
    /\ \A timer \in flashTimers :
          /\ timer.id \in MessageIdsOf(storage.messages)
          /\ timer.id \notin MessageIdsOf(OnFlashTimeout(timer).storage.messages)
    /\ last.type = "flash_timeout" => sent = <<>>

----------------------------------------------------------------------------
(* SpecExpiry: sockets connect and authenticate, the admin mutes two        *)
(* handles for a minute, and the clock moves up to and past the expiry.     *)

\* the handles the admin mutes
MutedHandles == {"shainez", "ad"}

NextExpiry ==
    \/ \E c \in Conns : ConnectNext(c)
    \/ \E c \in Conns, a \in AuthEvents :
          ~Authenticated(c) /\ Receive(c, a) /\ Capped(MaxConns, MaxSent)
    \/ \E c \in Conns, h \in MutedHandles : IsAdmin(c) /\ Receive(c, MuteUser(h, 1))
    \/ Tick

SpecExpiry == Init /\ [][NextExpiry]_vars

\* the handles a muted-user list names
MutedNames(q) == {q[i].username : i \in 1..Len(q)}

\* C17: the mute lookup is self-cleaning.  In every reachable state, for a
\* handle whose mute entry has mutedUntil <= now, isUserMuted(handle) returns
\* false and leaves a store without the entry, so that a getMutedUsers() after
\* it does not list the handle; and getMutedUsers() returns no entry with
\* mutedUntil <= now.
C17_SelfCleaning ==
    /\ \A h \in CREDENTIALS :
          MutedUntil(h) # <<>> /\ MutedUntil(h)[1].mutedUntil <= now =>
              LET st1 == isUserMutedStore(storage, h, now) IN
              /\ ~isUserMuted(storage, h, now)
              /\ h \notin MutedNames(st1.mutedUsers)
              /\ h \notin MutedNames(getMutedUsers(st1, now))
    /\ \A i \in 1..Len(getMutedUsers(storage, now)) :
          getMutedUsers(storage, now)[i].mutedUntil > now

\* shainez authenticated at the instant the mute of shainez expired, and the
\* lookup of handleAuth removed the entry
C17_Witness ==
    /\ last.type = "auth"
    /\ clients[last.conn].username = "shainez"
    /\ now = Epoch + MinuteMs
    /\ storage.saveTimeout = now + SaveDebounceMs
    /\ "shainez" \notin MutedNames(storage.mutedUsers)
    /\ \E i \in 1..Len(storage.users) :
          /\ storage.users[i].username = "shainez"
          /\ ~storage.users[i].isMuted

----------------------------------------------------------------------------
(* SpecAuth: sockets connect and send auth events whose handle is one of    *)
(* the table, a property name every object inherits, or neither.            *)

AuthHandles == CREDENTIALS \cup ObjectPrototype \cup {"mallory"}

AuthRoles == {"shainez", AdminRole}

Auth(username, role) == [type |-> "auth", username |-> username, role |-> role]

NextAuth ==
    \/ \E c \in Conns : ConnectNext(c)
    \/ \E c \in Conns, h \in AuthHandles, role \in AuthRoles :
          ~Authenticated(c) /\ Receive(c, Auth(h, role)) /\ Capped(MaxConns, MaxSent)

SpecAuth == Init /\ [][NextAuth]_vars

\* handleAuth rejected the event of socket c: nothing recorded on any socket,
\* the store as it was, and one error frame to c as the only frame written
AuthRejected(c, r) ==
    /\ r.clients = clients
    /\ r.storage = storage
    /\ r.nextUserId = nextUserId
    /\ Len(r.sent) = 1
    /\ r.sent[1].to = c
    /\ r.sent[1].type = "error"

\* C18: in every reachable state an auth event whose handle is not in the
\* credential table is rejected: the connection stays unauthenticated (no
\* session id, handle or role recorded), no User record is added, an error
\* is unicast to that connection, and no users_update is broadcast.
C18_UnknownHandleRejected ==
    \A c \in Conns, h \in AuthHandles \ CREDENTIALS, role \in AuthRoles :
        IsOpen(c) => AuthRejected(c, handleAuth(c, Auth(h, role)))

\* the part of C18 that holds: a handle for which the lookup in the table
\* yields nothing is rejected
C18_NoCredentialsRejected ==
    \A c \in Conns, h \in AuthHandles, role \in AuthRoles :
        IsOpen(c) /\ ~HasCredentials(h) => AuthRejected(c, handleAuth(c, Auth(h, role)))

----------------------------------------------------------------------------
\* the positions in out of the frames of one type
PositionsOf(out, type) == {i \in 1..Len(out) : out[i].type = type}

\* C19: in every reachable state of SpecQueue, an auth event with a handle of
\* the table from an open socket c writes exactly one initial_state frame, to
\* c and to no other socket; its messages field is getApprovedMessages() and
\* its pendingMessages field is the pending queue if the role is admin and
\* empty otherwise; and behind it one users_update frame carrying the user
\* list with the new user goes to every open socket, and nothing else is
\* written.
C19_InitialState ==
    \A c \in Conns, a \in AuthEvents :
        IsOpen(c) =>
            LET r == handleAuth(c, a)
                snapshots == FramesOf(r.sent, "initial_state")
            IN
            /\ Len(snapshots) = 1
            /\ snapshots[1].to = c
            /\ r.sent[1] = snapshots[1]
            /\ snapshots[1].messages = getApprovedMessages(storage)
            /\ snapshots[1].pendingMessages =
                  IF a.role = AdminRole THEN getPendingMessages(storage) ELSE <<>>
            /\ PositionsOf(r.sent, "users_update") = 2..Len(r.sent)
            /\ \E i \in 1..Len(r.storage.users) :
                  /\ r.storage.users[i].id = r.clients[c].userId
                  /\ r.storage.users[i].username = a.username
            /\ \A d \in Conns :
                  FramesTo(r.sent, d, "users_update") =
                      IF IsOpen(d)
                      THEN send(d, [type |-> "users_update", users |-> r.storage.users])
                      ELSE <<>>

\* the admin authenticated while a message was queued and another socket was
\* open: the queue went to the admin alone, the user list to both
C19_Witness ==
    /\ last.type = "auth"
    /\ clients[last.conn].role = AdminRole
    /\ getPendingMessages(storage) # <<>>
    /\ Len(sent) = 3
    /\ sent[1].type = "initial_state"
    /\ sent[1].to = last.conn
    /\ sent[1].pendingMessages = getPendingMessages(storage)
    /\ sent[2].type = "users_update" /\ sent[3].type = "users_update"
    /\ sent[2].to # sent[3].to

----------------------------------------------------------------------------
(* SpecHide: sockets connect, authenticate and close, and the admin hides   *)
(* and unhides the user shainez.                                            *)

HideUser(username) == [type |-> "hide_user", username |-> username]

UnhideUser(username) == [type |-> "unhide_user", username |-> username]

NextHide ==
    \/ \E c \in Conns : ConnectNext(c)
    \/ \E c \in Conns, a \in AuthEvents :
          ~Authenticated(c) /\ Receive(c, a) /\ Capped(MaxConns + 1, MaxSent)
    \/ \E c \in Conns : Close(c)
    \/ \E c \in Conns : IsAdmin(c) /\ Receive(c, HideUser("shainez"))
    \/ \E c \in Conns : IsAdmin(c) /\ Receive(c, UnhideUser("shainez"))

SpecHide == Init /\ [][NextHide]_vars

\* a User record of handle h is hidden
Hidden(h) ==
    \E i \in 1..Len(storage.users) :
        storage.users[i].username = h /\ storage.users[i].isHidden

\* the User record that an auth of handle h on socket d creates is hidden
NewSessionHidden(d, h) ==
    LET r == handleAuth(d, Auth(h, h)) IN
    \E i \in 1..Len(r.storage.users) :
        /\ r.storage.users[i].id = r.clients[d].userId
        /\ r.storage.users[i].isHidden

\* the socket of a hidden handle closes: on an open socket without a session,
\* the next thing being the auth of that handle, the new record is hidden
C20_ReconnectStep ==
    \A c \in Conns :
        /\ last'.type = "close" /\ last'.conn = c
        /\ clients[c].username # NoString
        /\ Hidden(clients[c].username)
        => \A d \in Conns :
              (IsOpen(d) /\ ~Authenticated(d))' => NewSessionHidden(d, clients[c].username)'

\* C20: the hidden flag is keyed by handle and sticks across reconnects: after
\* hide_user(h), if h disconnects and then authenticates again on a new
\* connection with no unhide_user(h) in between, the User record created for
\* the new session has isHidden = true.
C20_HiddenSticks == [][C20_ReconnectStep]_vars

\* the part of C20 that holds: hide_user(h) from an admin marks the live
\* record of h as hidden, and while a hidden record of h lives, a further
\* session of h starts hidden
C20_HiddenWhileOnline ==
    /\ \A c \in Conns :
          IsAdmin(c) /\ getUserByUsername(storage, "shainez") # <<>> =>
              LET r == handleHideUser(c, HideUser("shainez")) IN
              getUserByUsername(r.storage, "shainez")[1].isHidden
    /\ \A d \in Conns :
          /\ IsOpen(d) /\ ~Authenticated(d)
          /\ getUserByUsername(storage, "shainez") # <<>>
          /\ getUserByUsername(storage, "shainez")[1].isHidden
          => NewSessionHidden(d, "shainez")

----------------------------------------------------------------------------
(* SpecHeartbeat: sockets connect, authenticate, type and close; the        *)
(* heartbeat pings, sockets answer or not, and the silent ones are          *)
(* terminated.                                                              *)

Typing(isTyping) == [type |-> "typing", isTyping |-> isTyping]

NextHeartbeat ==
    \/ \E c \in Conns : ConnectNext(c)
    \/ \E c \in Conns, a \in AuthEvents :
          ~Authenticated(c) /\ Receive(c, a) /\ Capped(MaxConns, MaxSent)
    \/ \E c \in Conns : Authenticated(c) /\ Receive(c, Typing(TRUE))
    \/ \E c \in Conns : Close(c)
    \/ \E c \in Conns : Pong(c)
    \/ Heartbeat
    \/ \E c \in Conns : Terminated(c)

SpecHeartbeat == Init /\ [][NextHeartbeat]_vars

\* the handles of the typing entries of a store
TypingNames(st) == {st.typingUsers[i].username : i \in 1..Len(st.typingUsers)}

\* C21: in every reachable state, when the close event of a connection that
\* authenticated is handled, after a clean close or after a termination by
\* the heartbeat, the User record of its session is removed and the others
\* stay, the typing entry of its handle is cleared, and one users_update
\* followed by one typing_update, carrying the new lists, is written to every
\* open socket and nothing else is written; when the connection never
\* authenticated, the store is unchanged and nothing is written.
C21_CloseCleansUp ==
    \A c \in Conns :
        clients[c].readyState # "CLOSED" =>
            LET r == OnClose(c) IN
            /\ r.clients[c].readyState = "CLOSED"
            /\ IF clients[c].userId # Undefined
               THEN /\ r.storage.users =
                          SelectSeq(storage.users, LAMBDA u : u.id # clients[c].userId)
                    /\ clients[c].username \notin TypingNames(r.storage)
                    /\ r.storage.messages = storage.messages
                    /\ \A d \in Conns :
                          SelectSeq(r.sent, LAMBDA f : f.to = d) =
                              IF IsOpen(d) /\ d # c
                              THEN send(d, [type |-> "users_update",
                                            users |-> r.storage.users])
                                   \o send(d, [type |-> "typing_update",
                                               users |-> getTypingUsers(r.storage, now)])
                              ELSE <<>>
               ELSE /\ r.storage = storage
                    /\ r.sent = <<>>

\* a user who was typing was terminated by the heartbeat while another socket
\* was open: the record and the typing entry are gone and both lists were
\* written
C21_Witness ==
    /\ last.type = "terminated"
    /\ storage.typingUsers = <<>>
    /\ Len(storage.users) = 1
    /\ Len(sent) = 2
    /\ sent[1].type = "users_update" /\ sent[1].users = storage.users
    /\ sent[2].type = "typing_update" /\ sent[2].users = <<>>

\* what one run of the heartbeat does to each socket: it terminates exactly
\* the sockets that have not answered the ping of the run before, and marks
\* the others as pinged
C22_TickOutcome ==
    \A c \in Conns :
        IsOpen(c) =>
            /\ OnHeartbeat.clients[c].readyState =
                  IF clients[c].isAlive THEN "OPEN" ELSE "CLOSING"
            /\ ~OnHeartbeat.clients[c].isAlive

\* a socket is marked as not alive by a run of the heartbeat only and as alive
\* by its pong only, it is alive when it connects, and it stops being open by
\* its own close or by a run of the heartbeat that found it not alive
C22_Grace ==
    \A c \in Conns :
        /\ IsOpen(c) /\ IsOpen(c)' /\ clients[c].isAlive /\ ~clients'[c].isAlive =>
              last'.type = "heartbeat"
        /\ IsOpen(c) /\ IsOpen(c)' /\ ~clients[c].isAlive /\ clients'[c].isAlive =>
              last' = [type |-> "pong", conn |-> c]
        /\ ~IsOpen(c) /\ IsOpen(c)' => clients'[c].isAlive
        /\ IsOpen(c) /\ ~IsOpen(c)' =>
              \/ last' = [type |-> "close", conn |-> c]
              \/ last'.type = "heartbeat" /\ ~clients[c].isAlive
                   /\ clients'[c].readyState = "CLOSING"

\* C22: heartbeat with one grace period.  A run of the heartbeat terminates an
\* open connection exactly if the connection is marked as not alive, and a
\* connection is so marked exactly from the ping of a run until its next
\* pong; so a connection that answers every ping before the next run is never
\* terminated by the heartbeat, and one that stops answering survives the
\* first run after its last pong and is terminated by the second.
C22_HeartbeatGrace == []C22_TickOutcome /\ [][C22_Grace]_vars

\* one run of the heartbeat terminated a socket that had not answered its ping
\* and pinged another that was alive
C22_Witness ==
    /\ last.type = "heartbeat"
    /\ \E c \in Conns :
          /\ clients[c].readyState = "CLOSING"
          /\ \E d \in Conns : IsOpen(d) /\ ~clients[d].isAlive

----------------------------------------------------------------------------
(* SpecSave: sockets connect, one admin authenticates, sends messages and   *)
(* adds a blocked word; the clock moves by seconds and the save timer runs, *)
(* its PUT succeeding or failing.                                           *)

NextSave ==
    \/ \E c \in Conns : ConnectNext(c)
    \/ \E c \in Conns :
          /\ \A d \in Conns : ~Authenticated(d)
          /\ Receive(c, AdminAuth)
          /\ Capped(MaxConns, MaxMessages)
    \/ \E c \in Conns :
          IsAdmin(c) /\ Receive(c, SendMessage(Hello)) /\ Capped(MaxConns, MaxMessages)
    \/ \E c \in Conns, w \in Words : IsAdmin(c) /\ Receive(c, AddBlockedWord(w))
    \/ FlashTick
    \/ \E ok \in BOOLEAN : SaveFires(ok)

SpecSave == Init /\ [][NextSave]_vars

\* the store has a save pending that is due a full window from now
SaveRequested(st) == st.saveTimeout = now + SaveDebounceMs

\* every mutator of the store requests a save
C23_MutatorsRequest ==
    /\ SaveRequested(addMessage(storage,
            NewMessage(nextMessageId, 1, "ad", "ad", Hello, now, "pending", "normal",
                       Undefined), now))
    /\ \A i \in 1..Len(storage.messages) :
          /\ SaveRequested(updateMessage(storage, storage.messages[i].id,
                                         [status |-> "approved"], now))
          /\ SaveRequested(deleteMessage(storage, storage.messages[i].id, now))
    /\ SaveRequested(clearMessages(storage, now))
    /\ SaveRequested(updateConfig(storage, [cooldown |-> 5], now))
    /\ SaveRequested(addMutedUser(storage,
            [username |-> "ad", mutedUntil |-> now + MinuteMs], now))
    /\ SaveRequested(removeMutedUser(storage, "ad", now))
    /\ \A w \in Words :
          /\ SaveRequested(addBlockedWord(storage, w, now))
          /\ SaveRequested(removeBlockedWord(storage, w, now))

\* the times of the save requests that the store still shows: the creation of
\* each message and the addition of each blocked word
RequestTimes ==
    {storage.messages[i].timestamp : i \in 1..Len(storage.messages)}
    \cup {storage.blockedWords[i].addedAt : i \in 1..Len(storage.blockedWords)}

\* a PUT is made by the save timer only, one at a time, when a save is pending
\* and a full window has passed since every request; it sends the store as it
\* is then and leaves no save pending; and a save becomes pending by an event
\* only
C23_OneWrite ==
    /\ github' # github =>
          /\ last'.type = "save"
          /\ github'.puts = github.puts + 1
          /\ storage.saveTimeout # Undefined
          /\ \A t \in RequestTimes : t + SaveDebounceMs <= now
          /\ storage'.saveTimeout = Undefined
          /\ github'.failed = github.failed => github'.content = <<SavedData(storage')>>
          /\ github'.failed # github.failed => github'.content = github.content
    /\ storage'.saveTimeout # Undefined /\ storage'.saveTimeout # storage.saveTimeout =>
          last'.type \notin {"save", "clock"}

\* C23: debounced persistence.  Every store mutator requests a save, and a
\* burst of requests less than the 2-second window apart results in exactly
\* one persistence write, issued once the window has elapsed since the last
\* request and holding the state as of write time.
C23_DebouncedSave == []C23_MutatorsRequest /\ [][C23_OneWrite]_vars

\* two messages sent a second apart were written by the one PUT made so far
C23_Witness ==
    /\ last.type = "save"
    /\ github.puts = 1
    /\ github.failed = 0
    /\ Len(storage.messages) = 2
    /\ storage.messages[2].timestamp = storage.messages[1].timestamp + SecondMs
    /\ github.content = <<SavedData(storage)>>

\* the memory of the server: what a save would write
Memory == SavedData(storage)

\* a run of the save timer leaves the memory and the sockets as they were,
\* whether the PUT succeeds or fails
C24_SaveOutcome ==
    \A ok \in BOOLEAN :
        /\ SavedData(OnSave(ok).storage) = Memory
        /\ OnSave(ok).storage.users = storage.users
        /\ OnSave(ok).storage.typingUsers = storage.typingUsers

\* a step in which a PUT fails changes nothing in memory and on the sockets
C24_FailedStep ==
    github'.failed # github.failed =>
        /\ Memory' = Memory
        /\ storage'.users = storage.users
        /\ clients' = clients
        /\ nextMessageId' = nextMessageId

\* C24: a failed persistence write never changes in-memory state and never
\* fails or undoes the user action that scheduled it: after a save error the
\* messages, config, mutes and blocked words are exactly what they were before
\* the write attempt, and the events that follow are still processed.
C24_FailedSaveHarmless == []C24_SaveOutcome /\ [][C24_FailedStep]_vars

\* after a PUT failed, a message sent was accepted and broadcast
C24_Witness ==
    /\ github.failed > 0
    /\ last.type = "send_message"
    /\ Len(storage.messages) = 2
    /\ storage.messages[2].timestamp = now
    /\ storage.messages[1].timestamp < now
    /\ FramesOf(sent, "message") # <<>>

----------------------------------------------------------------------------
(* SpecInvalid: sockets connect and authenticate and send contents that     *)
(* pass and that fail the validation, and envelopes of an unknown type.     *)

\* an envelope whose type the switch does not know
UnknownEvent == [type |-> "bogus"]

\* the contents that the validation of handleSendMessage refuses: empty,
\* blank, and longer than 1000 characters
InvalidContents ==
    {x \in SendContents : Length(trim(x)) = 0 \/ Length(x) > MaxContentLength}

NextInvalid ==
    \/ \E c \in Conns : ConnectNext(c)
    \/ \E c \in Conns, a \in AuthEvents :
          ~Authenticated(c) /\ Receive(c, a) /\ Capped(MaxConns, MaxSent)
    \/ \E c \in Conns, x \in SendContents :
          /\ Authenticated(c)
          /\ Receive(c, SendMessage(x))
          /\ Capped(MaxConns, MaxSent)
    \/ \E c \in Conns : IsOpen(c) /\ Receive(c, UnknownEvent)

SpecInvalid == Init /\ [][NextInvalid]_vars

\* the handler answered socket c with one error frame, written to c only, and
\* changed neither the store nor the sockets
ErrorOnly(c, r) ==
    /\ r.storage = storage
    /\ r.clients = clients
    /\ Len(r.sent) = 1
    /\ r.sent[1].to = c
    /\ r.sent[1].type = "error"

\* C25: validation errors are answered with a unicast error event and the
\* connection stays open: in every reachable state, a send_message from an
\* authenticated socket whose content is empty after trim or longer than 1000
\* characters, and an envelope of an unknown type from an open socket, each
\* get one error frame written to the originating socket only, with no store
\* change.
C25_ValidationErrors ==
    /\ \A c \in Conns, x \in InvalidContents :
          Authenticated(c) => ErrorOnly(c, SendResult(c, x))
    /\ \A c \in Conns :
          IsOpen(c) => ErrorOnly(c, handleWebSocketMessage(c, UnknownEvent))

\* the part of C25 that holds: such a send and such an envelope change neither
\* the store nor any socket
C25_InvalidChangesNothing ==
    /\ \A c \in Conns, x \in InvalidContents :
          IsOpen(c) => SendResult(c, x) = Ignored
    /\ \A c \in Conns :
          IsOpen(c) => handleWebSocketMessage(c, UnknownEvent) = Ignored

----------------------------------------------------------------------------
(* SpecOrder: sockets connect one after the other and authenticate, the     *)
(* first as the admin; users and the admin send and the admin approves; the *)
(* clock moves, the save timer and the closure-timer check run.  The        *)
(* history of what was published and of what each socket was written is     *)
(* kept.                                                                    *)

\* the ids of the message frames among out written to socket d, in order
MessageIdsWritten(out, d) ==
    LET f == FramesTo(out, d, "message") IN [i \in 1..Len(f) |-> f[i].message.id]

\* the message that event e from socket c publishes by its effect on the
\* store: the message a send stores as approved, and the stored message an
\* admin approves or force-publishes
PublishedBy(c, e) ==
    LET r == handleWebSocketMessage(c, e) IN
    IF e.type = "send_message"
    THEN IF Accepted(r) /\ Created(r).status = "approved" THEN <<Created(r).id>> ELSE <<>>
    ELSE IF e.type \in {"approve_message", "force_publish"}
    THEN IF clients[c].role = AdminRole /\ e.messageId \in MessageIdsOf(storage.messages)
         THEN <<e.messageId>> ELSE <<>>
    ELSE <<>>

\* a step whose history is kept: the ids published are appended to the
\* journal, the ids written to each socket to its inbox
Journaled(r, type, c, published) ==
    /\ Handled(r, type, c)
    /\ feed' = [ feed EXCEPT
                   !.journal = @ \o published,
                   !.inbox = [d \in Conns |-> @[d] \o MessageIdsWritten(r.sent, d)] ]

ReceiveJournaled(c, e) ==
    /\ IsOpen(c)
    /\ Journaled(handleWebSocketMessage(c, e), e.type, c, PublishedBy(c, e))

ConnectJournaled(c) ==
    /\ clients[c].readyState = "CLOSED"
    /\ \A d \in Conns : d < c => IsOpen(d)
    /\ Handled([Ignored EXCEPT !.clients = [clients EXCEPT ![c] = NewSocket]],
               "connection", c)
    /\ feed' = [feed EXCEPT !.inbox[c] = <<>>, !.since[c] = Len(feed.journal)]

\* the clock moves, once, by the window of the save timer, between the first
\* publication and the next one
SaveWindowPasses ==
    /\ now = Epoch
    /\ Len(feed.journal) = 1
    /\ AdvanceTime(SaveDebounceMs)

\* as many publications are followed as messages are sent
JournalCapped == Len(feed'.journal) <= MaxMessages

NextOrder ==
    \/ \E c \in Conns : ConnectJournaled(c)
    \/ \E c \in Conns, a \in AuthEvents :
          /\ ~Authenticated(c)
          /\ a.role = AdminRole <=> c = 1
          /\ ReceiveJournaled(c, a)
          /\ Capped(MaxConns, MaxMessages)
    \/ \E c \in Conns :
          /\ Authenticated(c)
          /\ ReceiveJournaled(c, SendMessage(Hello))
          /\ Capped(MaxConns, MaxMessages)
          /\ JournalCapped
    \/ \E c \in Conns, id \in 1..MaxMessages :
          IsAdmin(c) /\ ReceiveJournaled(c, Approve(id)) /\ JournalCapped
    \/ SaveWindowPasses
    \/ SaveFires(TRUE)
    \/ Journaled(OnTimerCheck, "timer_check", 0, <<>>)

SpecOrder == Init /\ [][NextOrder]_vars

\* C26: message delivery order equals mutation order.  In every reachable
\* state, the message frames written to an open socket since it connected
\* are, in this order, exactly the messages published since then in the order
\* their events were applied to the store; so of two messages published while
\* a socket was open, the socket receives first the one whose event was
\* processed first, and the save timer, the clock and the timer check add
\* and reorder nothing.
C26_DeliveryOrder ==
    \A c \in Conns :
        IsOpen(c) =>
            feed.inbox[c] = SubSeq(feed.journal, feed.since[c] + 1, Len(feed.journal))

\* a queued message was approved after a later message had been published:
\* the socket that connected first was written both, the later message first,
\* and a socket that connected in between only the approved one
C26_Witness ==
    /\ feed.journal = <<2, 1>>
    /\ \A c \in Conns : IsOpen(c) /\ feed.inbox[c] = <<2, 1>>
    /\ github.puts > 0

----------------------------------------------------------------------------
(* Publication by the admin: users send messages that wait in the queue, and
   the admin, who takes the first socket, approves and force-publishes
   them. *)

NextPublish ==
    \/ \E c \in Conns : ConnectNext(c)
    \/ \E c \in Conns, a \in AuthEvents :
          /\ ~Authenticated(c)
          /\ a.role = AdminRole <=> c = 1
          /\ Receive(c, a)
          /\ Capped(MaxConns, MaxMessages)
    \/ \E c \in Conns :
          /\ Authenticated(c)
          /\ Receive(c, SendMessage(Hello))
          /\ Capped(MaxConns, MaxMessages)
    \/ \E c \in Conns, id \in 1..MaxMessages : IsAdmin(c) /\ Receive(c, Approve(id))
    \/ \E c \in Conns, id \in 1..MaxMessages :
          IsAdmin(c) /\ Receive(c, ForcePublish(id))

SpecPublish == Init /\ [][NextPublish]_vars

\* the frames among out written to socket d, without the address
WrittenTo(out, d) ==
    LET f == SelectSeq(out, LAMBDA x : x.to = d) IN
    [i \in 1..Len(f) |-> [k \in DOMAIN f[i] \ {"to"} |-> f[i][k]]]

\* outcome r publishes the stored message of that id with the fields of updates
\* set: that message alone changes, and each open socket is written the
\* message as it is now stored and then message_approved(id), no socket
\* anything else
PublishedWith(r, id, updates) ==
    /\ Len(r.storage.messages) = Len(storage.messages)
    /\ \A i \in 1..Len(storage.messages) :
          r.storage.messages[i] =
              IF storage.messages[i].id = id
              THEN Spread(storage.messages[i], updates)
              ELSE storage.messages[i]
    /\ [r.storage EXCEPT !.messages = storage.messages,
                         !.saveTimeout = storage.saveTimeout] = storage
    /\ r.clients = clients
    /\ \A d \in Conns :
          WrittenTo(r.sent, d) =
              IF IsOpen(d)
              THEN LET i == CHOOSE i \in 1..Len(storage.messages) :
                                storage.messages[i].id = id
                   IN  << [type |-> "message", message |-> r.storage.messages[i]],
                          [type |-> "message_approved", messageId |-> id] >>
              ELSE <<>>

\* outcome r changes nothing and writes nothing
NothingDone(r) ==
    /\ r.storage = storage
    /\ r.clients = clients
    /\ r.sent = <<>>

\* C27: in every reachable state, approve_message(id) from an admin socket,
\* for an id in the store, sets the status of that message to approved, leaves
\* everything else in the store as it was, and writes to every open socket the
\* message followed by message_approved(id); for an id that is not in the
\* store it changes nothing and writes nothing.
C27_ApproveOutcome ==
    \A c \in Conns, id \in 1..MaxMessages :
        IsAdmin(c) =>
            LET r == handleWebSocketMessage(c, Approve(id)) IN
            IF id \in MessageIdsOf(storage.messages)
            THEN PublishedWith(r, id, [status |-> "approved"])
            ELSE NothingDone(r)

\* a stored message has just been approved with two sockets open, and an
\* approval of an id that is not stored is possible in the same state
C27_Witness ==
    /\ last.type = "approve_message"
    /\ Len(sent) = 4
    /\ sent[1].type = "message" /\ sent[1].message.status = "approved"
    /\ sent[3].type = "message_approved"
    /\ \E id \in 1..MaxMessages : id \notin MessageIdsOf(storage.messages)

\* the message list with the message of that id approved and force-published
ForcePublishedIn(q, id) ==
    [i \in 1..Len(q) |->
        IF q[i].id = id
        THEN [q[i] EXCEPT !.status = "approved", !.forcePublished = TRUE]
        ELSE q[i]]

\* force_publish(id) from an admin socket, by the state it is handled in
C28_ForcePublishOutcome ==
    \A c \in Conns, id \in 1..MaxMessages :
        IsAdmin(c) /\ id \in MessageIdsOf(storage.messages) =>
            LET r == handleWebSocketMessage(c, ForcePublish(id)) IN
            /\ PublishedWith(r, id, [forcePublished |-> TRUE, status |-> "approved"])
            /\ r.storage.messages = ForcePublishedIn(storage.messages, id)
            /\ id \in MessageIdsOf(getApprovedMessages(r.storage))
            /\ id \notin MessageIdsOf(getPendingMessages(r.storage))

\* the step is one of force_publish(id) and approve_message(id) from admin
\* socket c: the other one, handled next, leaves the store in which that
\* message is approved and force-published, whichever came first
C28_EitherOrder ==
    last'.type \in {"force_publish", "approve_message"} /\ sent' # <<>> =>
        \A c \in Conns, id \in 1..MaxMessages :
            c = last'.conn /\ id = sent'[1].message.id =>
                LET both == scheduleSave([storage EXCEPT
                                            !.messages = ForcePublishedIn(@, id)], now)
                IN  /\ IsAdmin(c)
                    /\ id \in MessageIdsOf(storage.messages)
                    /\ last'.type = "force_publish" =>
                          handleWebSocketMessage(c, Approve(id))'.storage = both
                    /\ last'.type = "approve_message" =>
                          handleWebSocketMessage(c, ForcePublish(id))'.storage = both

\* C28: always, force_publish(id) from an admin socket on a stored message,
\* pending or approved, leaves it with status approved and forcePublished
\* true, in getApprovedMessages() and not in getPendingMessages(), every other
\* message as it was, and writes the message to every open socket; and
\* force_publish(id) followed by approve_message(id) leaves the same store as
\* approve_message(id) followed by force_publish(id).
C28_ForcePublish == []C28_ForcePublishOutcome /\ [][C28_EitherOrder]_vars

\* a pending message has been force-published and then approved
C28_Witness ==
    /\ last.type = "approve_message"
    /\ sent # <<>>
    /\ sent[1].message.forcePublished
    /\ sent[1].message.role # AdminRole
    /\ \E i \in 1..Len(storage.messages) : storage.messages[i].status = "pending"

----------------------------------------------------------------------------
(* The operations of the chat on stored messages: users and the admin, who
   takes the first socket, send; the admin approves, force-publishes and
   deletes single messages and clears the history. *)

NextCore ==
    \/ \E c \in Conns : ConnectNext(c)
    \/ \E c \in Conns, a \in AuthEvents :
          /\ ~Authenticated(c)
          /\ a.role = AdminRole <=> c = 1
          /\ Receive(c, a)
          /\ Capped(MaxConns, MaxMessages)
    \/ \E c \in Conns :
          /\ Authenticated(c)
          /\ Receive(c, SendMessage(Hello))
          /\ Capped(MaxConns, MaxMessages)
    \/ \E c \in Conns, id \in 1..MaxMessages : IsAdmin(c) /\ Receive(c, Approve(id))
    \/ \E c \in Conns, id \in 1..MaxMessages :
          IsAdmin(c) /\ Receive(c, ForcePublish(id))
    \/ \E c \in Conns, id \in 1..MaxMessages :
          IsAdmin(c) /\ Receive(c, DeleteMessage(id))
    \/ \E c \in Conns : IsAdmin(c) /\ Receive(c, [type |-> "clear_history"])

SpecCore == Init /\ [][NextCore]_vars

\* the fields a message is created with, for each message of a list
CoreOf(q) ==
    [i \in 1..Len(q) |->
        [ id |-> q[i].id, userId |-> q[i].userId, username |-> q[i].username,
          role |-> q[i].role, content |-> q[i].content,
          timestamp |-> q[i].timestamp ]]

\* C29: in every step, whatever the event, the messages that are in the store
\* before and after it have the same id, userId, username, role, content and
\* timestamp after it as before, and stand in the same order; so every stored
\* message has the core fields it was created with and keeps its place among
\* the surviving ones.
C29_CoreStep ==
    CoreOf(SelectSeq(storage'.messages,
                     LAMBDA m : m.id \in MessageIdsOf(storage.messages)))
        = CoreOf(SelectSeq(storage.messages,
                           LAMBDA m : m.id \in MessageIdsOf(storage'.messages)))

C29_CoreImmutable == [][C29_CoreStep]_vars

\* two messages of a user are stored in the order they were sent, the first
\* force-published and the second approved
C29_Witness ==
    /\ Len(storage.messages) = 2
    /\ storage.messages[1].id = 1 /\ storage.messages[2].id = 2
    /\ storage.messages[1].role # AdminRole /\ storage.messages[2].role # AdminRole
    /\ storage.messages[1].forcePublished
    /\ storage.messages[2].status = "approved" /\ ~storage.messages[2].forcePublished

----------------------------------------------------------------------------
(* Resetting the timers: one admin authenticates, sets the closure timer and
   the cooldown, switches the chat off and direct mode on, blocks a word,
   mutes a handle and resets the timers; time passes and the monitor runs. *)

ResetSteps ==
    { [timerMinutes |-> 1], [cooldown |-> 5], [enabled |-> FALSE],
      [directChatEnabled |-> TRUE] }

ResetTimers == [type |-> "reset_timers"]

NextReset ==
    \/ \E c \in Conns : ConnectNext(c)
    \/ \E c \in Conns :
          /\ \A d \in Conns : ~Authenticated(d)
          /\ Receive(c, AdminAuth)
          /\ Capped(MaxConns, MaxMessages)
    \/ \E c \in Conns, p \in ResetSteps : IsAdmin(c) /\ Receive(c, UpdateConfig(p))
    \/ \E c \in Conns, w \in Words : IsAdmin(c) /\ Receive(c, AddBlockedWord(w))
    \/ \E c \in Conns : IsAdmin(c) /\ Receive(c, MuteUser("shainez", 1))
    \/ \E c \in Conns : IsAdmin(c) /\ Receive(c, ResetTimers)
    \/ Tick
    \/ TimerCheck /\ Capped(MaxConns, MaxMessages)

SpecReset == Init /\ [][NextReset]_vars

\* reset_timers from an admin socket, by the state it is handled in: the timer
\* is unset and the cooldown 0, the rest of the config and of the store is as
\* it was, and every open socket is written the new config
C30_ResetOutcome ==
    \A c \in Conns :
        IsAdmin(c) =>
            LET r == handleWebSocketMessage(c, ResetTimers) IN
            /\ r.storage.config =
                  [storage.config EXCEPT !.timerEndTime = Undefined, !.cooldown = 0]
            /\ r.storage.config.enabled = storage.config.enabled
            /\ r.storage.config.simulationMode = storage.config.simulationMode
            /\ r.storage.config.directChatEnabled = storage.config.directChatEnabled
            /\ r.storage.messages = storage.messages
            /\ r.storage.mutedUsers = storage.mutedUsers
            /\ r.storage.blockedWords = storage.blockedWords
            /\ r.clients = clients
            /\ \A d \in Conns :
                  WrittenTo(r.sent, d) =
                      IF IsOpen(d)
                      THEN << [type |-> "config_update", config |-> r.storage.config] >>
                      ELSE <<>>

\* after a reset_timers step no timer is set and a run of the monitor does
\* nothing; a run of the monitor closes the chat only if a timer is set; and a
\* timer is set, where none was, by update_config alone
C30_UntilNewTimer ==
    /\ last'.type = "reset_timers" =>
          /\ storage'.config.timerEndTime = Undefined
          /\ storage'.config.cooldown = 0
          /\ OnTimerCheck' = Ignored'
    /\ last'.type = "timer_check" /\ storage.config.timerEndTime = Undefined =>
          /\ storage' = storage
          /\ sent' = <<>>
    /\ storage.config.timerEndTime = Undefined /\ storage'.config.timerEndTime # Undefined =>
          last'.type = "update_config"

\* C30: always, reset_timers from an admin socket sets config.timerEndTime to
\* unset and config.cooldown to 0, leaves enabled, simulationMode,
\* directChatEnabled, the messages, the mutes and the blocked words as they
\* were and writes the new config to every open socket; and from that step on
\* the closure-timer check does nothing until an update_config sets a new
\* timer.
C30_ResetTimers == []C30_ResetOutcome /\ [][C30_UntilNewTimer]_vars

\* reset_timers has cleared a timer whose deadline has passed since, with the
\* chat still on, a blocked word, a mute and a cooldown that was set before
C30_Witness ==
    /\ last.type = "timer_check"
    /\ sent = <<>>
    /\ now > Epoch + MinuteMs
    /\ storage.config.enabled
    /\ storage.config.directChatEnabled
    /\ storage.config.timerEndTime = Undefined
    /\ storage.config.cooldown = 0
    /\ storage.messages = <<>>
    /\ storage.blockedWords # <<>>
    /\ storage.mutedUsers # <<>>

----------------------------------------------------------------------------
(* Blocked words in several casings: the admin, who takes the first socket,
   blocks and unblocks a word written in three ways and a second word that
   is part of it; users and the admin send a content that holds both; the
   clock moves once. *)

WordCasings == { Str(<<"A", "b">>), Str(<<"a", "b">>), Str(<<"A", "B">>) }

OtherWord == Str(<<"B">>)

NextWords ==
    \/ \E c \in Conns : ConnectNext(c)
    \/ \E c \in Conns, a \in AuthEvents :
          /\ ~Authenticated(c)
          /\ a.role = AdminRole <=> c = 1
          /\ Receive(c, a)
          /\ Capped(MaxConns, MaxSent)
    \/ \E c \in Conns :
          /\ Authenticated(c)
          /\ Receive(c, SendMessage(Hello))
          /\ Capped(MaxConns, MaxSent)
    \/ \E c \in Conns, w \in WordCasings \cup {OtherWord} :
          IsAdmin(c) /\ Receive(c, AddBlockedWord(w))
    \/ \E c \in Conns, w \in WordCasings \cup {OtherWord} :
          IsAdmin(c) /\ Receive(c, RemoveBlockedWord(w))
    \/ now = Epoch /\ AdvanceTime(SecondMs)

SpecWords == Init /\ [][NextWords]_vars

\* the words of a blocked-word list
WordsOf(q) == {q[i].word : i \in 1..Len(q)}

\* the entries of a blocked-word list that are word w in some casing
EntriesOf(q, w) == {i \in 1..Len(q) : toLowerCase(q[i].word) = toLowerCase(w)}

\* the blocked-word list holds lowercased words, each once, and from any such
\* state add_blocked_word(w) from an admin socket leaves exactly one entry for
\* w, the lowercased word, beside the words there were, and
\* remove_blocked_word(w) leaves none, whatever the casing of w
C31_WordOutcome ==
    LET q == storage.blockedWords IN
    /\ \A i \in 1..Len(q) : q[i].word = toLowerCase(q[i].word)
    /\ \A i, j \in 1..Len(q) : q[i].word = q[j].word => i = j
    /\ \A c \in Conns, w \in WordCasings \cup {OtherWord} :
          IsAdmin(c) =>
              LET added == handleWebSocketMessage(c, AddBlockedWord(w)).storage.blockedWords
                  removed ==
                      handleWebSocketMessage(c, RemoveBlockedWord(w)).storage.blockedWords
              IN  /\ Cardinality(EntriesOf(added, w)) = 1
                  /\ WordsOf(added) = WordsOf(q) \cup {toLowerCase(w)}
                  /\ Len(added) = Cardinality(WordsOf(added))
                  /\ EntriesOf(removed, w) = {}
                  /\ WordsOf(removed) = WordsOf(q) \ {toLowerCase(w)}
                  /\ Len(removed) = Cardinality(WordsOf(removed))

\* where no entry is left for a word, as after its removal, a content that
\* holds the word and no word still blocked is accepted from every socket
\* with a session
C31_NotRejected ==
    \A w \in WordCasings \cup {OtherWord}, d \in Conns :
        /\ Authenticated(d)
        /\ includes(toLowerCase(Hello), toLowerCase(w))
        /\ EntriesOf(storage.blockedWords, w) = {}
        /\ \A i \in 1..Len(storage.blockedWords) :
              ~includes(toLowerCase(Hello), storage.blockedWords[i].word)
        => /\ Accepted(SendResult(d, Hello))
           /\ FramesOf(SendResult(d, Hello).sent, "error") = <<>>

\* C31: in every reachable state the blocked words are stored lowercased and
\* each once: adding a word in one casing and then in another leaves exactly
\* one entry, the lowercased word; remove_blocked_word with any casing of the
\* word removes that entry; and with the entry removed a send that contains
\* the word is rejected only for another word that is still blocked.
C31_BlockedWords == C31_WordOutcome /\ C31_NotRejected

\* the word was blocked before the second word and blocked again, in the
\* other casing, a second later: one entry, lowercased, at its first place
C31_Witness ==
    /\ last.type = "add_blocked_word"
    /\ Len(storage.blockedWords) = 2
    /\ storage.blockedWords[1] = [word |-> Str(<<"a", "b">>), addedAt |-> Epoch + SecondMs]
    /\ storage.blockedWords[2] = [word |-> Str(<<"b">>), addedAt |-> Epoch]
    /\ sent # <<>>
    /\ sent[1].blockedWords = storage.blockedWords

----------------------------------------------------------------------------
(* Hiding and message rights: the admin, who takes the first socket, hides
   and unhides a handle, mutes it and switches the chat off; users and the
   admin send. *)

NextRights ==
    \/ \E c \in Conns : ConnectNext(c)
    \/ \E c \in Conns, a \in AuthEvents :
          /\ ~Authenticated(c)
          /\ a.role = AdminRole <=> c = 1
          /\ Receive(c, a)
          /\ Capped(MaxConns, MaxSent)
    \/ \E c \in Conns :
          /\ Authenticated(c)
          /\ Receive(c, SendMessage(Hello))
          /\ Capped(MaxConns, MaxSent)
    \/ \E c \in Conns : IsAdmin(c) /\ Receive(c, HideUser("shainez"))
    \/ \E c \in Conns : IsAdmin(c) /\ Receive(c, UnhideUser("shainez"))
    \/ \E c \in Conns : IsAdmin(c) /\ Receive(c, MuteUser("shainez", 1))
    \/ \E c \in Conns : IsAdmin(c) /\ Receive(c, UpdateConfig([enabled |-> FALSE]))

SpecRights == Init /\ [][NextRights]_vars

\* an outcome without the hidden flags of the User records
Unhidden(r) ==
    [r EXCEPT !.storage.users = [i \in 1..Len(@) |-> [@[i] EXCEPT !.isHidden = FALSE]]]

\* hide_user and unhide_user from an admin socket, by the state they are
\* handled in: nothing changes but the isHidden flag of a User record of that
\* handle, and only users_update frames are written
C32_FlagOnly ==
    \A c \in Conns, e \in {HideUser("shainez"), UnhideUser("shainez")} :
        IsAdmin(c) =>
            LET r == handleWebSocketMessage(c, e) IN
            /\ [Unhidden(r) EXCEPT !.sent = <<>>] = Unhidden(Ignored)
            /\ \A i \in 1..Len(storage.users) :
                  r.storage.users[i] # storage.users[i] =>
                      /\ storage.users[i].username = "shainez"
                      /\ r.storage.users[i].isHidden = (e.type = "hide_user")
            /\ \A i \in 1..Len(r.sent) : r.sent[i].type = "users_update"

\* in a step that hides or unhides a handle, what a send_message from any
\* socket with a session leaves (store, sockets, frames, message created or
\* not and its status) is the same after the step as before it, the hidden
\* flags apart
C32_SameRights ==
    last'.type \in {"hide_user", "unhide_user"} =>
        \A d \in Conns :
            Authenticated(d) =>
                Unhidden(SendResult(d, Hello))' = Unhidden(SendResult(d, Hello))

----------------------------------------------------------------------------
(* The cooldown: sockets connect, authenticate and send, the admin sends
   update_config with a cooldown below zero, of zero and above zero, and
   resets the timers. *)

CooldownInputs == {0 - 1, 0, 5}

NextCooldown ==
    \/ \E c \in Conns : ConnectNext(c)
    \/ \E c \in Conns, a \in AuthEvents :
          ~Authenticated(c) /\ Receive(c, a) /\ Capped(MaxConns, MaxSent)
    \/ \E c \in Conns :
          /\ Authenticated(c)
          /\ Receive(c, SendMessage(Hello))
          /\ Capped(MaxConns, MaxSent)
    \/ \E c \in Conns, n \in CooldownInputs :
          IsAdmin(c) /\ Receive(c, UpdateConfig([cooldown |-> n]))
    \/ \E c \in Conns : IsAdmin(c) /\ Receive(c, ResetTimers)

SpecCooldown == Init /\ [][NextCooldown]_vars

\* C33: in every reachable state config.cooldown is a number that is not
\* below zero, whatever update_config payloads the admins send.
C33_CooldownNotNegative == storage.config.cooldown >= 0

\* the part of C33 that holds: the cooldown is what the last update_config
\* that carried one said, so it is below zero only by such a payload
C33_CooldownAsSent ==
    \A c \in Conns, n \in CooldownInputs :
        IsAdmin(c) =>
            handleWebSocketMessage(c, UpdateConfig([cooldown |-> n])).storage.config.cooldown
                = n

----------------------------------------------------------------------------
\* the handle of the admin in the credential table
AdminHandle == "pronBOT"

\* C34: in every reachable state of SpecAuth, a socket that authenticated with
\* a handle of the table other than the admin handle has no admin capability,
\* whatever role its auth event declared: every admin-only event it sends is
\* ignored, and an auth event with such a handle is sent no pending queue.
C34_AdminByHandle ==
    \A c \in Conns :
        IsOpen(c) =>
            /\ clients[c].username \in CREDENTIALS \ {AdminHandle} =>
                  \A e \in AdminEvents : handleWebSocketMessage(c, e) = Ignored
            /\ \A h \in CREDENTIALS \ {AdminHandle}, role \in AuthRoles :
                  LET r == handleAuth(c, Auth(h, role)) IN
                  r.sent[1].pendingMessages = <<>>
                      /\ r.clients[c].role # AdminRole

----------------------------------------------------------------------------
(* Sessions: sockets connect, send auth events, also when they have a
   session already, and close. *)

NextSessions ==
    \/ \E c \in Conns : ConnectNext(c)
    \/ \E c \in Conns, a \in AuthEvents :
          IsOpen(c) /\ Receive(c, a) /\ Capped(MaxConns + 1, MaxSent)
    \/ \E c \in Conns : Close(c)

SpecSessions == Init /\ [][NextSessions]_vars

\* C35: in every reachable state the User records of the store and the open
\* sockets with a session correspond one to one, the id of the record being
\* the session id of the socket: no User record outlives its connection, also
\* when a socket that has a session sends a second auth event.
C35_OneToOne ==
    /\ \A i \in 1..Len(storage.users) :
          \E c \in Conns : Authenticated(c) /\ clients[c].userId = storage.users[i].id
    /\ \A c \in Conns :
          Authenticated(c) =>
              Cardinality({i \in 1..Len(storage.users) :
                              storage.users[i].id = clients[c].userId}) = 1
    /\ \A c, d \in Conns :
          Authenticated(c) /\ Authenticated(d) /\ clients[c].userId = clients[d].userId
              => c = d

----------------------------------------------------------------------------
\* C36: in every reachable state of SpecOrder, the message frames written to
\* an open socket since it connected carry each message id at most once, so a
\* feed built by appending them never holds the same id twice.
C36_NoDuplicate ==
    \A c \in Conns :
        IsOpen(c) =>
            \A i, j \in 1..Len(feed.inbox[c]) :
                feed.inbox[c][i] = feed.inbox[c][j] => i = j

\* the part of C36 that holds: a send_message writes the message it creates
\* at most once to each socket, and that id was written to no socket before
C36_SendOnce ==
    \A c, d \in Conns :
        Authenticated(c) =>
            LET r == SendResult(c, Hello) IN
            /\ Len(FramesTo(r.sent, d, "message")) <= 1
            /\ \A i \in 1..Len(feed.inbox[d]) : feed.inbox[d][i] # nextMessageId

----------------------------------------------------------------------------
\* the events that carry chat state
ChatStateEvents ==
    { "message", "flash_message", "pending_message", "users_update", "typing_update",
      "config_update", "muted_users_update", "blocked_words_update",
      "message_approved", "message_rejected", "message_deleted" }

\* C37: in every reachable state of SpecQueue, the frames written in the last
\* step that carry chat state went to sockets that have completed an auth;
\* a socket without a session is written error frames at most.
C37_OnlyAuthenticated ==
    \A i \in 1..Len(sent) :
        sent[i].type \in ChatStateEvents => Authenticated(sent[i].to)

\* the part of C37 that holds: the frames that are not broadcast, which are
\* initial_state and pending_message, go to sockets with a session only
C37_UnicastAuthenticated ==
    \A i \in 1..Len(sent) :
        sent[i].type \in {"initial_state", "pending_message"} => Authenticated(sent[i].to)

----------------------------------------------------------------------------
\* the two views of a store share no message
DisjointViews(st) ==
    /\ MessageIdsOf(getPendingMessages(st)) \cap MessageIdsOf(getApprovedMessages(st)) = {}
    /\ \A i \in 1..Len(getPendingMessages(st)), j \in 1..Len(getApprovedMessages(st)) :
          getPendingMessages(st)[i] # getApprovedMessages(st)[j]

\* C38: in every reachable state of SpecCore getPendingMessages() and
\* getApprovedMessages() share no message, and so it is in the store that
\* force_publish and approve_message of any id leave.
C38_Disjoint ==
    /\ DisjointViews(storage)
    /\ \A c \in Conns, id \in 1..MaxMessages :
          IsAdmin(c) =>
              /\ DisjointViews(handleWebSocketMessage(c, ForcePublish(id)).storage)
              /\ DisjointViews(handleWebSocketMessage(c, Approve(id)).storage)

\* a user's message was force-published while another waits in the queue
C38_Witness ==
    /\ last.type = "force_publish"
    /\ getPendingMessages(storage) # <<>>
    /\ \E j \in 1..Len(getApprovedMessages(storage)) :
          /\ getApprovedMessages(storage)[j].forcePublished
          /\ getApprovedMessages(storage)[j].role # AdminRole

----------------------------------------------------------------------------
\* the handles under which sockets authenticate
SessionHandles == {a.username : a \in AuthEvents}

\* the mute stored for handle h in store st, as a sequence of no or one entry
StoredMute(st, h) == First(SelectSeq(st.mutedUsers, LAMBDA mu : mu.username = h))

\* C39: in every reachable state of SpecMute, in the store that mute_user(h)
\* from an admin socket leaves every User record with handle h has isMuted = true and
\* mutedUntil equal to the expiry of the stored mute, and in the store that
\* unmute_user(h) leaves every such record has isMuted = false, also when the
\* handle has a session on several sockets.
C39_AllRecords ==
    \A c \in Conns, h \in SessionHandles :
        IsAdmin(c) =>
            LET muted == handleWebSocketMessage(c, MuteUser(h, 1)).storage
                unmuted == handleWebSocketMessage(c, UnmuteUser(h)).storage
            IN  /\ \A i \in 1..Len(muted.users) :
                      muted.users[i].username = h =>
                          /\ muted.users[i].isMuted
                          /\ StoredMute(muted, h) # <<>>
                          /\ muted.users[i].mutedUntil = StoredMute(muted, h)[1].mutedUntil
                /\ \A i \in 1..Len(unmuted.users) :
                      unmuted.users[i].username = h => ~unmuted.users[i].isMuted

\* the part of C39 that holds: the first record of the handle carries the
\* mute after mute_user and none after unmute_user
C39_FirstRecord ==
    \A c \in Conns, h \in SessionHandles :
        IsAdmin(c) =>
            LET muted == handleWebSocketMessage(c, MuteUser(h, 1)).storage
                unmuted == handleWebSocketMessage(c, UnmuteUser(h)).storage
                first == getUserByUsername(muted, h)
                other == getUserByUsername(unmuted, h)
            IN  /\ first # <<>> =>
                      /\ first[1].isMuted
                      /\ first[1].mutedUntil = StoredMute(muted, h)[1].mutedUntil
                /\ other # <<>> => ~other[1].isMuted

----------------------------------------------------------------------------
(* The admin's view of the queue: each socket's client keeps a pending list
   by the frames written to it; users send, and the admin, who takes the first
   socket, approves, rejects, force-publishes and deletes messages and clears
   the history. *)

\* the switch of the client's onmessage, for its pendingMessages
onmessage(pendingMessages, data) ==
    CASE data.type = "initial_state" -> data.pendingMessages
      [] data.type = "pending_message" -> Append(pendingMessages, data.message)
      [] data.type \in {"message_approved", "message_rejected", "message_deleted"} ->
            SelectSeq(pendingMessages, LAMBDA m : m.id # data.messageId)
      [] data.type = "messages_cleared" -> <<>>
      [] OTHER -> pendingMessages

\* the pending list of a client after the frames of a sequence, in order
RECURSIVE onmessages(_, _)
onmessages(pendingMessages, frames) ==
    IF frames = <<>> THEN pendingMessages
    ELSE onmessages(onmessage(pendingMessages, Head(frames)), Tail(frames))

\* a step whose frames the clients apply
Viewed(r, type, c) ==
    /\ Handled(r, type, c)
    /\ feed' = [ feed EXCEPT !.queue =
                   [d \in Conns |-> onmessages(@[d], WrittenTo(r.sent, d))] ]

ReceiveViewed(c, e) == IsOpen(c) /\ Viewed(handleWebSocketMessage(c, e), e.type, c)

NextView ==
    \/ \E c \in Conns : ConnectNext(c)
    \/ \E c \in Conns, a \in AuthEvents :
          /\ ~Authenticated(c)
          /\ a.role = AdminRole <=> c = 1
          /\ ReceiveViewed(c, a)
          /\ Capped(MaxConns, MaxMessages)
    \/ \E c \in Conns :
          /\ Authenticated(c)
          /\ ReceiveViewed(c, SendMessage(Hello))
          /\ Capped(MaxConns, MaxMessages)
    \/ \E c \in Conns, id \in 1..MaxMessages : IsAdmin(c) /\ ReceiveViewed(c, Approve(id))
    \/ \E c \in Conns, id \in 1..MaxMessages : IsAdmin(c) /\ ReceiveViewed(c, Reject(id))
    \/ \E c \in Conns, id \in 1..MaxMessages :
          IsAdmin(c) /\ ReceiveViewed(c, ForcePublish(id))
    \/ \E c \in Conns, id \in 1..MaxMessages :
          IsAdmin(c) /\ ReceiveViewed(c, DeleteMessage(id))
    \/ \E c \in Conns : IsAdmin(c) /\ ReceiveViewed(c, [type |-> "clear_history"])

SpecView == Init /\ [][NextView]_vars

\* C40: in every reachable state, all frames written so far being applied,
\* the pending list of the client of every admin socket is getPendingMessages()
\* of the store, in the same order, whatever sends, approvals, rejections,
\* force-publishes, deletions and clear_history came before.
C40_QueueView ==
    \A c \in Conns : IsAdmin(c) => feed.queue[c] = getPendingMessages(storage)

\* the admin deleted the first of two queued messages: the view holds the
\* second
C40_Witness ==
    /\ last.type = "delete_message"
    /\ IsAdmin(last.conn)
    /\ Len(feed.queue[last.conn]) = 1
    /\ feed.queue[last.conn][1].id = 2
    /\ sent # <<>>

====
